---- MODULE Spec2Model ----
(***************************************************************************)
(* The reconnecting WebSocket stream of polymarket-rs                      *)
(* (src/websocket/stream.rs) over the market / user event streams          *)
(* (src/websocket/market.rs, src/websocket/user.rs).                       *)
(*                                                                         *)
(* Durations are whole seconds.  The multipliers used are whole numbers,   *)
(* for which Duration::from_secs_f64(d.as_secs_f64() * m) is exactly d*m.  *)
(***************************************************************************)
EXTENDS Integers, Sequences, FiniteSets, TLC

VARIABLES
    config,         \* ReconnectConfig given to ReconnectingStream::new
    state,          \* self.state: StreamState (tag, attempts, delay, future)
    backoff,        \* self.backoff: ExponentialBackoff
    sleep_future,   \* self.sleep_future: Option<Sleep>
    conn,           \* the inner stream held by StreamState::Connected(S)
    out,            \* what the last poll_next returned
    yielded,        \* every item returned as Poll::Ready(Some(_)), in order
    connectCalls,   \* number of invocations of connect_fn
    nextId,         \* sequence number of the next frame the network delivers
    woken,          \* a registered waker has been woken since the last poll
    seen,           \* the failure the last poll_next observed ("none" if none)
    okProduced,     \* Ok items the inner streams returned before their first error or end
    everConnected,  \* some connect attempt has succeeded
    which,          \* raw stream under test: "market" or "user"
    consumed,       \* frames the raw stream has taken from the socket
    trail,          \* the state the last poll_next began in, then every value it
                    \* assigned to self.state, in order (<<>> in the runs that do not
                    \* record them)
    lossAt,         \* connectCalls when the last established connection was lost (-1: none)
    dropped,        \* the wrapper has been dropped
    api_creds,      \* AuthenticatedClient.api_creds is Some
    call,           \* the last client operation: arguments, effects in order, result
    rin,            \* the arguments of the last order-rounding operation
    rout            \* what that operation returned

\* the state of the REST clients and of the order rounding
restVars == <<api_creds, call, rin, rout>>

vars == <<config, state, backoff, sleep_future, conn, out, yielded, connectCalls,
          nextId, woken, seen, okProduced, everConnected, which, consumed,
          trail, lossAt, dropped, restVars>>

\* ------------------------------------------------------------------ bounds
MaxFrames == 3
MaxNet == 2
MaxConnects == 4
MaxScale == 12
MaxTokenScale == 8

\* ------------------------------------------------------------------ inputs
InitialDelays == {1, 3, 10}
MaxDelays == {5, 60}
Multipliers == {2}
\* Option<u32>: {} is None, {n} is Some(n)
MaxAttemptsOptions == {{}, {1}, {2}, {3}}

Configs ==
    [initial_delay : InitialDelays, max_delay : MaxDelays,
     multiplier : Multipliers, max_attempts : MaxAttemptsOptions]

Min(a, b) == IF a <= b THEN a ELSE b

RECURSIVE Pow(_, _)
Pow(b, n) == IF n <= 0 THEN 1 ELSE b * Pow(b, n - 1)

\* ------------------------------------------------------------------ items
NoItem == [kind |-> "", err |-> "", id |-> 0, attempts |-> 0]
OkItem(i) == [kind |-> "Ok", err |-> "", id |-> i, attempts |-> 0]
ErrItem(e, i) == [kind |-> "Err", err |-> e, id |-> i, attempts |-> 0]
ReconnectFailed(n) == [kind |-> "Err", err |-> "ReconnectFailed", id |-> 0, attempts |-> n]

Pending == [tag |-> "Pending", item |-> NoItem]
ReadyNone == [tag |-> "None", item |-> NoItem]
ReadySome(it) == [tag |-> "Some", item |-> it]
Continue == [tag |-> "Continue", item |-> NoItem]
NotPolled == [tag |-> "Start", item |-> NoItem]

\* ------------------------------------------------------------------ frames
\* What the socket's read half can hand to filter_map: the tungstenite Message
\* variants (Text split by what the text holds), a transport error, and "eof" for
\* the read half returning None.  An array names its elements in order: arr_ok_bad is
\* [event, unparsable].
TextKinds == {"empty", "pingtext", "arr_empty", "arr_ok", "arr_bad", "arr_ok_ok",
              "arr_ok_bad", "arr_bad_ok", "obj_ok", "bad_text"}
\* The arrays whose first element is an event, and those whose first element is not
FirstOk == {"arr_ok", "arr_ok_ok", "arr_ok_bad"}
FirstBad == {"arr_bad", "arr_bad_ok"}
FrameKinds == TextKinds \cup {"close_frame", "close_none", "ping", "pong", "binary",
                              "raw", "error", "eof"}
\* The kinds delivered under the wrapper: one for each outcome of the filter.
StreamFrameKinds == {"obj_ok", "bad_text", "close_none", "binary", "ping", "eof"}

Skip == [kind |-> "Skip", err |-> "", id |-> 0, attempts |-> 0]

\* Mutant of MarketFilter: a text that fails to parse is dropped without an item.
MarketFilterDropsBadText(f) ==
    CASE f.kind \in {"empty", "pingtext", "arr_empty", "ping", "pong", "raw"} -> Skip
      [] f.kind \in FirstOk \cup {"obj_ok"} -> OkItem(f.id)
      [] f.kind \in FirstBad \cup {"bad_text"} -> Skip
      [] f.kind \in {"close_frame", "close_none"} -> ErrItem("ConnectionClosed", f.id)
      [] f.kind \in {"binary", "error"} -> ErrItem("WebSocket", f.id)

\* Mutant of MarketFilter: no trimming and no ping/pong test, and a close frame that
\* carries a code is a WebSocket error (the closure of the user stream).
MarketFilterLikeUser(f) ==
    CASE f.kind = "arr_empty" -> Skip
      [] f.kind \in FirstOk \cup {"obj_ok"} -> OkItem(f.id)
      [] f.kind \in FirstBad \cup {"empty", "pingtext", "bad_text"} -> ErrItem("Json", f.id)
      [] f.kind = "close_none" -> ErrItem("ConnectionClosed", f.id)
      [] f.kind \in {"ping", "pong", "raw"} -> Skip
      [] f.kind \in {"close_frame", "binary", "error"} -> ErrItem("WebSocket", f.id)

\* Mutant of UserFilter: an array is an event if any of its elements is one.
UserFilterAnyElement(f) ==
    CASE f.kind = "arr_empty" -> Skip
      [] f.kind \in FirstOk \cup {"arr_bad_ok", "obj_ok"} -> OkItem(f.id)
      [] f.kind \in {"arr_bad", "empty", "pingtext", "bad_text"} -> ErrItem("Json", f.id)
      [] f.kind = "close_none" -> ErrItem("ConnectionClosed", f.id)
      [] f.kind \in {"ping", "pong", "raw"} -> Skip
      [] f.kind \in {"close_frame", "binary", "error"} -> ErrItem("WebSocket", f.id)

\* MarketWsClient::subscribe, the closure given to filter_map
MarketFilter(f) ==
    CASE f.kind \in {"empty", "pingtext"} -> Skip
      [] f.kind = "arr_empty" -> Skip
      [] f.kind \in FirstOk -> OkItem(f.id)
      [] f.kind \in FirstBad -> ErrItem("Json", f.id)
      [] f.kind = "obj_ok" -> OkItem(f.id)
      [] f.kind = "bad_text" -> ErrItem("Json", f.id)
      [] f.kind \in {"close_frame", "close_none"} -> ErrItem("ConnectionClosed", f.id)
      [] f.kind \in {"ping", "pong"} -> Skip
      [] f.kind = "binary" -> ErrItem("WebSocket", f.id)
      [] f.kind = "raw" -> Skip
      [] f.kind = "error" -> ErrItem("WebSocket", f.id)

\* UserWsClient::subscribe, the closure given to filter_map: no trimming and no
\* ping/pong text test, so an empty text and the text "ping" reach the parser.
UserFilter(f) ==
    CASE f.kind = "arr_empty" -> Skip
      [] f.kind \in FirstOk -> OkItem(f.id)
      [] f.kind \in FirstBad -> ErrItem("Json", f.id)
      [] f.kind = "obj_ok" -> OkItem(f.id)
      [] f.kind \in {"empty", "pingtext", "bad_text"} -> ErrItem("Json", f.id)
      [] f.kind = "close_frame" -> ErrItem("WebSocket", f.id)
      [] f.kind = "close_none" -> ErrItem("ConnectionClosed", f.id)
      [] f.kind \in {"ping", "pong"} -> Skip
      [] f.kind = "binary" -> ErrItem("WebSocket", f.id)
      [] f.kind = "raw" -> Skip
      [] f.kind = "error" -> ErrItem("WebSocket", f.id)

Filter(w, f) == IF w = "market" THEN MarketFilter(f) ELSE UserFilter(f)

\* filter_map's poll_next over the frames q buffered on the socket: frames mapped to
\* None are dropped and the next is taken; the first item is returned; an empty
\* socket is Pending; the read half's end is the stream's end.  taken = frames removed.
RECURSIVE FilterMapPoll(_, _, _)
FilterMapPoll(w, q, taken) ==
    IF q = <<>> THEN [res |-> Pending, q |-> q, taken |-> taken]
    ELSE IF Head(q).kind = "eof"
         THEN [res |-> ReadyNone, q |-> Tail(q), taken |-> Append(taken, Head(q))]
    ELSE IF Filter(w, Head(q)) = Skip
         THEN FilterMapPoll(w, Tail(q), Append(taken, Head(q)))
    ELSE [res |-> ReadySome(Filter(w, Head(q))), q |-> Tail(q),
          taken |-> Append(taken, Head(q))]

\* ------------------------------------------------------------------ backoff
ExponentialBackoff(initial_delay, max_delay, multiplier) ==
    [current_delay |-> initial_delay, max_delay |-> max_delay, multiplier |-> multiplier]

\* ExponentialBackoff::next_delay: returns the current delay and advances it
NextDelay(b) ==
    [delay |-> b.current_delay,
     backoff |-> [b EXCEPT !.current_delay =
                      Min(b.current_delay * b.multiplier, b.max_delay)]]

\* ExponentialBackoff::reset
Reset(b) == [b EXCEPT !.current_delay = 1]

\* ------------------------------------------------------------------ stream state
Connecting(attempts, future) ==
    [tag |-> "Connecting", attempts |-> attempts, delay |-> 0, future |-> future]
Connected == [tag |-> "Connected", attempts |-> 0, delay |-> 0, future |-> "none"]
Reconnecting(attempts, delay) ==
    [tag |-> "Reconnecting", attempts |-> attempts, delay |-> delay, future |-> "none"]
Terminated == [tag |-> "Terminated", attempts |-> 0, delay |-> 0, future |-> "none"]

NoSleep == [armed |-> FALSE, delay |-> 0, elapsed |-> FALSE, registered |-> FALSE]
Sleep(delay) == [armed |-> TRUE, delay |-> delay, elapsed |-> FALSE, registered |-> FALSE]

NoConn == [open |-> FALSE, q |-> <<>>, waker |-> FALSE, failed |-> FALSE, sent |-> <<>>]

\* What the network answers to the two fallible steps of one subscribe call
Handshakes == [connect : BOOLEAN, send : BOOLEAN]

\* The message a subscribe call sends: MarketSubscription / UserAuthentication
Payload(w) == IF w = "market" THEN "subscription" ELSE "authentication"

\* Mutant of Subscribe: the stream is handed out as soon as the socket is connected.
SubscribeBeforeSend(w, h) ==
    IF ~h.connect
    THEN [result |-> "Err", steps |-> <<[step |-> "connect_async", ok |-> FALSE]>>,
          stream |-> NoConn]
    ELSE [result |-> "Ok", steps |-> <<[step |-> "connect_async", ok |-> TRUE]>>,
          stream |-> [NoConn EXCEPT !.open = TRUE]]

\* MarketWsClient::subscribe / UserWsClient::subscribe up to the stream they return:
\* connect_async(..).await?, write.send(Message::Text(..)).await.map_err(..)?, then
\* read.filter_map(..)
Subscribe(w, h) ==
    IF ~h.connect
    THEN [result |-> "Err", steps |-> <<[step |-> "connect_async", ok |-> FALSE]>>,
          stream |-> NoConn]
    ELSE IF ~h.send
         THEN [result |-> "Err",
               steps |-> <<[step |-> "connect_async", ok |-> TRUE],
                           [step |-> Payload(w), ok |-> FALSE]>>,
               stream |-> NoConn]
         ELSE [result |-> "Ok",
               steps |-> <<[step |-> "connect_async", ok |-> TRUE],
                           [step |-> Payload(w), ok |-> TRUE]>>,
               stream |-> [NoConn EXCEPT !.open = TRUE, !.sent = <<Payload(w)>>]]

\* The stream the connect future resolved with: connect_fn is a subscribe call
\* (client.subscribe(token_ids).await) that returned Ok
NewConn == Subscribe("market", [connect |-> TRUE, send |-> TRUE]).stream

\* self.state = <a value of this tag>, noted in the record of a poll_next
Assigned(t, tag) == IF t = <<>> THEN t ELSE Append(t, tag)

\* The fields poll_next reads and writes, as one record
Self ==
    [state |-> state, backoff |-> backoff, sleep_future |-> sleep_future, conn |-> conn,
     connectCalls |-> connectCalls, seen |-> "none", okProduced |-> okProduced,
     everConnected |-> everConnected, trail |-> IF trail = <<>> THEN <<>> ELSE <<state.tag>>, lossAt |-> lossAt]

\* Mutant of HandleDisconnection: the budget test is attempts > max.
HandleDisconnectionStrict(m, attempts) ==
    IF \E max \in config.max_attempts : attempts > max
    THEN [m |-> [m EXCEPT !.state = Terminated, !.conn = NoConn,
                          !.trail = Assigned(@, "Terminated")],
          ret |-> ReadySome(ReconnectFailed(attempts))]
    ELSE LET nd == NextDelay(m.backoff)
         IN [m |-> [m EXCEPT !.backoff = nd.backoff,
                             !.state = Reconnecting(attempts, nd.delay),
                             !.trail = Assigned(@, "Reconnecting"),
                             !.conn = NoConn,
                             !.sleep_future = Sleep(nd.delay)],
             ret |-> Pending]

\* Mutant of HandleDisconnection: max_attempts.unwrap_or(3), so None is a budget too.
HandleDisconnectionUnwrapOr(m, attempts) ==
    IF \E max \in (IF config.max_attempts = {} THEN {3} ELSE config.max_attempts) :
           attempts >= max
    THEN [m |-> [m EXCEPT !.state = Terminated, !.conn = NoConn,
                          !.trail = Assigned(@, "Terminated")],
          ret |-> ReadySome(ReconnectFailed(attempts))]
    ELSE LET nd == NextDelay(m.backoff)
         IN [m |-> [m EXCEPT !.backoff = nd.backoff,
                             !.state = Reconnecting(attempts, nd.delay),
                             !.trail = Assigned(@, "Reconnecting"),
                             !.conn = NoConn,
                             !.sleep_future = Sleep(nd.delay)],
             ret |-> Pending]

\* Mutant of HandleDisconnection: the delay is taken from the backoff before the
\* budget is looked at.
HandleDisconnectionDelayFirst(m, attempts) ==
    LET nd == NextDelay(m.backoff)
    IN IF \E max \in config.max_attempts : attempts >= max
       THEN [m |-> [m EXCEPT !.backoff = nd.backoff,
                             !.state = Terminated, !.conn = NoConn,
                             !.trail = Assigned(@, "Terminated")],
             ret |-> ReadySome(ReconnectFailed(attempts))]
       ELSE [m |-> [m EXCEPT !.backoff = nd.backoff,
                             !.state = Reconnecting(attempts, nd.delay),
                             !.trail = Assigned(@, "Reconnecting"),
                             !.conn = NoConn,
                             !.sleep_future = Sleep(nd.delay)],
             ret |-> Pending]

\* Mutant of HandleDisconnection: the inner stream outlives the state that held it.
HandleDisconnectionKeepsConn(m, attempts) ==
    IF \E max \in config.max_attempts : attempts >= max
    THEN [m |-> [m EXCEPT !.state = Terminated,
                          !.trail = Assigned(@, "Terminated")],
          ret |-> ReadySome(ReconnectFailed(attempts))]
    ELSE LET nd == NextDelay(m.backoff)
         IN [m |-> [m EXCEPT !.backoff = nd.backoff,
                             !.state = Reconnecting(attempts, nd.delay),
                             !.trail = Assigned(@, "Reconnecting"),
                             !.sleep_future = Sleep(nd.delay)],
             ret |-> Pending]

\* Mutant of HandleDisconnection: the budget is compared with the number of connects
\* made since construction, successful ones included.
HandleDisconnectionCountsAll(m, attempts) ==
    IF \E max \in config.max_attempts :
           (IF attempts < m.connectCalls THEN m.connectCalls ELSE attempts) >= max
    THEN [m |-> [m EXCEPT !.state = Terminated, !.conn = NoConn,
                          !.trail = Assigned(@, "Terminated")],
          ret |-> ReadySome(ReconnectFailed(attempts))]
    ELSE LET nd == NextDelay(m.backoff)
         IN [m |-> [m EXCEPT !.backoff = nd.backoff,
                             !.state = Reconnecting(attempts, nd.delay),
                             !.trail = Assigned(@, "Reconnecting"),
                             !.conn = NoConn,
                             !.sleep_future = Sleep(nd.delay)],
             ret |-> Pending]

\* ReconnectingStream::handle_disconnection.  Assigning self.state drops the inner
\* stream the old state held.
HandleDisconnection(m, attempts) ==
    IF \E max \in config.max_attempts : attempts >= max
    THEN [m |-> [m EXCEPT !.state = Terminated, !.conn = NoConn,
                          !.trail = Assigned(@, "Terminated")],
          ret |-> ReadySome(ReconnectFailed(attempts))]
    ELSE LET nd == NextDelay(m.backoff)
         IN [m |-> [m EXCEPT !.backoff = nd.backoff,
                             !.state = Reconnecting(attempts, nd.delay),
                             !.trail = Assigned(@, "Reconnecting"),
                             !.conn = NoConn,
                             !.sleep_future = Sleep(nd.delay)],
             ret |-> Pending]

\* Mutant of ConnectedClosed: the closure is noted but the inner stream is kept and
\* polled again by the next pull.
ConnectedClosedKeepsStream(m) ==
    [m |-> [m EXCEPT !.seen = "ConnectionClosed"], ret |-> Pending]

\* Mutant of ConnectedErr: the error is handled like ConnectionClosed and not returned.
ConnectedErrSwallowed(m, res) ==
    HandleDisconnection([m EXCEPT !.seen = res.item.err], 1)

\* poll_next, Connected arm, Poll::Ready(Some(Ok(item))): reset the backoff, forward
ConnectedOk(m, res) ==
    [m |-> [m EXCEPT !.backoff = Reset(@)], ret |-> res]

\* poll_next, Connected arm, Poll::Ready(Some(Err(Error::ConnectionClosed)))
ConnectedClosed(m) ==
    HandleDisconnection([m EXCEPT !.seen = "ConnectionClosed"], 1)

\* poll_next, Connected arm, Poll::Ready(Some(Err(e))): the result of
\* handle_disconnection is discarded and the error is returned
ConnectedErr(m, res) ==
    [m |-> HandleDisconnection([m EXCEPT !.seen = res.item.err], 1).m, ret |-> res]

\* Mutant of ConnectedEnd: a clean end starts the next connect at once, with no delay.
ConnectedEndReconnectsAtOnce(m) ==
    [m |-> [m EXCEPT !.seen = "End", !.state = Connecting(1, "none"), !.conn = NoConn,
                     !.trail = Assigned(@, "Connecting")],
     ret |-> Continue]

\* poll_next, Connected arm, Poll::Ready(None)
ConnectedEnd(m) ==
    HandleDisconnection([m EXCEPT !.seen = "End"], 1)

\* poll_next, StreamState::Connected arm: poll the inner stream and dispatch
PollConnected(m) ==
    LET ip == FilterMapPoll("market", m.conn.q, <<>>)
        isOk == ip.res.tag = "Some" /\ ip.res.item.kind = "Ok"
        \* the inner stream's own history: what it returned before its first error or end
        m1 == [m EXCEPT !.conn.q = ip.q,
                        !.conn.failed = @ \/ (ip.res.tag = "None")
                                          \/ (ip.res.tag = "Some" /\ ~isOk),
                        !.okProduced = IF isOk /\ ~m.conn.failed
                                       THEN Append(@, ip.res.item.id) ELSE @,
                        !.lossAt = IF ip.res.tag = "None"
                                      \/ (ip.res.tag = "Some" /\ ~isOk)
                                   THEN m.connectCalls ELSE @]
    IN CASE ip.res.tag = "Pending" ->
              [m |-> [m1 EXCEPT !.conn.waker = TRUE], ret |-> Pending]
         [] isOk -> ConnectedOk(m1, ip.res)
         [] ip.res.tag = "Some" /\ ip.res.item.err = "ConnectionClosed" ->
              ConnectedClosed(m1)
         [] ip.res.tag = "Some" /\ ~isOk /\ ip.res.item.err # "ConnectionClosed" ->
              ConnectedErr(m1, ip.res)
         [] ip.res.tag = "None" -> ConnectedEnd(m1)

\* Mutant of PollReconnecting: the delay is not awaited.
PollReconnectingNoWait(m) ==
    [m |-> [m EXCEPT !.sleep_future = NoSleep,
                     !.state = Connecting(m.state.attempts, "none"),
                     !.trail = Assigned(@, "Connecting")],
     ret |-> Continue]

\* poll_next, StreamState::Reconnecting arm
PollReconnecting(m) ==
    IF m.sleep_future.armed
    THEN IF m.sleep_future.elapsed
         THEN [m |-> [m EXCEPT !.sleep_future = NoSleep,
                               !.state = Connecting(m.state.attempts, "none"),
                               !.trail = Assigned(@, "Connecting")],
               ret |-> Continue]
         ELSE [m |-> [m EXCEPT !.sleep_future.registered = TRUE], ret |-> Pending]
    ELSE [m |-> [m EXCEPT !.sleep_future = Sleep(m.state.delay)], ret |-> Continue]

\* Mutant of PollConnecting: a pull that finds the attempt still pending starts another.
PollConnectingAgain(m, cr) ==
    LET current_attempts == m.state.attempts
        fresh == m.state.future \in {"none", "pending"}
        m1 == IF fresh THEN [m EXCEPT !.connectCalls = @ + 1] ELSE m
        r == IF fresh THEN cr ELSE m.state.future
    IN CASE r = "ok" ->
              [m |-> [m1 EXCEPT !.state = Connected, !.conn = NewConn,
                                !.backoff = Reset(@), !.everConnected = TRUE,
                                !.lossAt = -1, !.trail = Assigned(@, "Connected")],
               ret |-> Continue]
         [] r = "err" ->
              LET next_attempts == IF current_attempts = 0 THEN 1
                                   ELSE current_attempts + 1
              IN HandleDisconnection([m1 EXCEPT !.seen = "ConnectErr"], next_attempts)
         [] r = "pending" ->
              [m |-> [m1 EXCEPT !.state = Connecting(current_attempts, "pending"),
                                !.trail = Assigned(@, "Connecting")],
               ret |-> Pending]

\* Mutant of PollConnecting: a successful connect leaves the backoff where it stood.
PollConnectingNoReset(m, cr) ==
    LET current_attempts == m.state.attempts
        fresh == m.state.future = "none"
        m1 == IF fresh THEN [m EXCEPT !.connectCalls = @ + 1] ELSE m
        r == IF fresh THEN cr ELSE m.state.future
    IN CASE r = "ok" ->
              [m |-> [m1 EXCEPT !.state = Connected, !.conn = NewConn,
                                !.everConnected = TRUE,
                                !.lossAt = -1, !.trail = Assigned(@, "Connected")],
               ret |-> Continue]
         [] r = "err" ->
              LET next_attempts == IF current_attempts = 0 THEN 1
                                   ELSE current_attempts + 1
              IN HandleDisconnection([m1 EXCEPT !.seen = "ConnectErr"], next_attempts)
         [] r = "pending" ->
              [m |-> [m1 EXCEPT !.state = Connecting(current_attempts, "pending"),
                                !.trail = Assigned(@, "Connecting")],
               ret |-> Pending]

\* poll_next, StreamState::Connecting arm.  cr is what the connect future answers
\* when it is polled right after connect_fn created it; a stored future answers
\* what it has resolved to since.
PollConnecting(m, cr) ==
    LET current_attempts == m.state.attempts
        fresh == m.state.future = "none"
        m1 == IF fresh THEN [m EXCEPT !.connectCalls = @ + 1] ELSE m
        r == IF fresh THEN cr ELSE m.state.future
    IN CASE r = "ok" ->
              [m |-> [m1 EXCEPT !.state = Connected, !.conn = NewConn,
                                !.backoff = Reset(@), !.everConnected = TRUE,
                                !.lossAt = -1, !.trail = Assigned(@, "Connected")],
               ret |-> Continue]
         [] r = "err" ->
              LET next_attempts == IF current_attempts = 0 THEN 1
                                   ELSE current_attempts + 1
              IN HandleDisconnection([m1 EXCEPT !.seen = "ConnectErr"], next_attempts)
         [] r = "pending" ->
              [m |-> [m1 EXCEPT !.state = Connecting(current_attempts, "pending"),
                                !.trail = Assigned(@, "Connecting")],
               ret |-> Pending]

\* Mutant of PollTerminated: a pull of a terminated wrapper starts over.
PollTerminatedRestarts(m) ==
    [m |-> [m EXCEPT !.state = Connecting(0, "none"),
                     !.trail = Assigned(@, "Connecting")],
     ret |-> Continue]

\* poll_next, StreamState::Terminated arm
PollTerminated(m) == [m |-> m, ret |-> ReadyNone]

\* <Stream for ReconnectingStream>::poll_next: the loop over self.state
RECURSIVE PollNext(_, _)
PollNext(m, cr) ==
    LET step == CASE m.state.tag = "Connected" -> PollConnected(m)
                  [] m.state.tag = "Reconnecting" -> PollReconnecting(m)
                  [] m.state.tag = "Connecting" -> PollConnecting(m, cr)
                  [] m.state.tag = "Terminated" -> PollTerminated(m)
    IN IF step.ret.tag = "Continue" THEN PollNext(step.m, cr) ELSE step

\* ------------------------------------------------------------------ order rounding
\* rust_decimal::Decimal: the value m / 10^scale; the scale is part of the value's
\* representation (1.50 has scale 2).
Dec(m, scale) == [m |-> m, scale |-> scale]

Abs(x) == IF x < 0 THEN -x ELSE x

\* Decimal::eq and Decimal::hash compare values, not representations
SameValue(a, b) == a.m * Pow(10, b.scale) = b.m * Pow(10, a.scale)

\* Decimal * Decimal (exact: the scales add)
Mul(a, b) == Dec(a.m * b.m, a.scale + b.scale)

\* Decimal::round_dp_with_strategy: a value of scale <= dp is returned as it is,
\* otherwise the result has scale dp
RoundDp(d, dp, strategy) ==
    IF d.scale <= dp THEN d
    ELSE LET div == Pow(10, d.scale - dp)
             q == Abs(d.m) \div div
             r == Abs(d.m) % div
             up == CASE strategy = "AwayFromZero" -> r > 0
                     [] strategy = "ToZero" -> FALSE
                     [] strategy = "MidpointTowardZero" -> 2 * r > div
                     [] strategy = "MidpointAwayFromZero" -> 2 * r >= div
             mag == IF up THEN q + 1 ELSE q
         IN Dec(IF d.m < 0 THEN -mag ELSE mag, dp)

RoundConfig(price, size, amount) == [price |-> price, size |-> size, amount |-> amount]

\* Mutant of ROUNDING_CONFIG: the entry of 0.001 allows one amount decimal too few.
ROUNDING_CONFIG_ShortAmount ==
    {[tick |-> Dec(1, 1), cfg |-> RoundConfig(1, 2, 3)],
     [tick |-> Dec(1, 2), cfg |-> RoundConfig(2, 2, 4)],
     [tick |-> Dec(1, 3), cfg |-> RoundConfig(3, 2, 4)],
     [tick |-> Dec(1, 4), cfg |-> RoundConfig(4, 2, 6)]}

\* ROUNDING_CONFIG: HashMap<Decimal, RoundConfig>
ROUNDING_CONFIG ==
    {[tick |-> Dec(1, 1), cfg |-> RoundConfig(1, 2, 3)],
     [tick |-> Dec(1, 2), cfg |-> RoundConfig(2, 2, 4)],
     [tick |-> Dec(1, 3), cfg |-> RoundConfig(3, 2, 5)],
     [tick |-> Dec(1, 4), cfg |-> RoundConfig(4, 2, 6)]}

\* ROUNDING_CONFIG.get(&tick_size): Option<RoundConfig> as a set
Get(tick_size) == {e.cfg : e \in {x \in ROUNDING_CONFIG : SameValue(x.tick, tick_size)}}

\* Mutant of DecimalToTokenU64: the amount is rounded before it is multiplied.
DecimalToTokenU64RoundsFirst(amt) ==
    LET r == Mul(Dec(1000000, 0), RoundDp(amt, 0, "MidpointTowardZero"))
    IN IF amt.m < 0 THEN [panic |-> TRUE, value |-> 0]
       ELSE [panic |-> FALSE, value |-> r.m]

\* Mutant of DecimalToTokenU64: an exact midpoint is rounded away from zero.
DecimalToTokenU64MidpointUp(amt) ==
    LET prod == Mul(Dec(1000000, 0), amt)
        r == IF prod.scale > 0 THEN RoundDp(prod, 0, "MidpointAwayFromZero") ELSE prod
    IN IF amt.m < 0 THEN [panic |-> TRUE, value |-> 0]
       ELSE [panic |-> FALSE, value |-> r.m]

\* decimal_to_token_u64.  try_into() fails on a negative Decimal and expect() panics;
\* the values of the model stay far below u64::MAX.
DecimalToTokenU64(amt) ==
    LET prod == Mul(Dec(1000000, 0), amt)
        r == IF prod.scale > 0 THEN RoundDp(prod, 0, "MidpointTowardZero") ELSE prod
    IN IF amt.m < 0 THEN [panic |-> TRUE, value |-> 0]
       ELSE [panic |-> FALSE, value |-> r.m]

\* Mutant of FixAmountRounding: only the first rounding (to amount + 4 places) is made.
FixAmountRoundingOneStage(amt, round_config) ==
    IF amt.scale > round_config.amount
    THEN RoundDp(amt, round_config.amount + 4, "AwayFromZero")
    ELSE amt

\* Mutant of FixAmountRounding: the amount is truncated at once, without the rounding
\* to amount + 4 places before it.
FixAmountRoundingTruncatesOnly(amt, round_config) ==
    IF amt.scale > round_config.amount
    THEN RoundDp(amt, round_config.amount, "ToZero")
    ELSE amt

\* Mutant of FixAmountRounding: the truncation keeps one place too few.
FixAmountRoundingCoarse(amt, round_config) ==
    IF amt.scale > round_config.amount
    THEN LET a1 == RoundDp(amt, round_config.amount + 4, "AwayFromZero")
         IN IF a1.scale > round_config.amount
            THEN RoundDp(a1, round_config.amount - 1, "ToZero")
            ELSE a1
    ELSE amt

\* fix_amount_rounding
FixAmountRounding(amt, round_config) ==
    IF amt.scale > round_config.amount
    THEN LET a1 == RoundDp(amt, round_config.amount + 4, "AwayFromZero")
         IN IF a1.scale > round_config.amount
            THEN RoundDp(a1, round_config.amount, "ToZero")
            ELSE a1
    ELSE amt

NoOrder ==
    [rule |-> RoundConfig(0, 0, 0), price |-> Dec(0, 0), side |-> "",
     maker_amount |-> 0, taker_amount |-> 0, signed |-> FALSE]

\* Mutant of OrderBuilderCreateOrder: an unknown tick size falls back to the rule of 0.01.
OrderBuilderCreateOrderDefaultRule(tick_size, price, size, side) ==
    LET rules == IF Get(tick_size) = {} THEN Get(Dec(1, 2)) ELSE Get(tick_size)
        rc == CHOOSE r \in rules : TRUE
        p == RoundDp(price, rc.price, "MidpointAwayFromZero")
        sz == RoundDp(size, rc.size, "MidpointAwayFromZero")
        amount == FixAmountRounding(Mul(p, sz), rc)
        size_u == DecimalToTokenU64(sz).value
        amount_u == DecimalToTokenU64(amount).value
    IN [err |-> "",
        order |-> [rule |-> rc, price |-> p, side |-> side,
                   maker_amount |-> IF side = "Buy" THEN amount_u ELSE size_u,
                   taker_amount |-> IF side = "Buy" THEN size_u ELSE amount_u,
                   signed |-> TRUE]]

\* OrderBuilder::create_order, the callee of TradingClient::create_order: look the
\* tick size up (unknown: InvalidParameter), round price and size, compute and fix the
\* amount, convert to token units, fill maker and taker amounts by side, sign.
OrderBuilderCreateOrder(tick_size, price, size, side) ==
    LET rules == Get(tick_size)
    IN IF rules = {} THEN [err |-> "InvalidParameter", order |-> NoOrder]
       ELSE LET rc == CHOOSE r \in rules : TRUE
                p == RoundDp(price, rc.price, "MidpointAwayFromZero")
                sz == RoundDp(size, rc.size, "MidpointAwayFromZero")
                amount == FixAmountRounding(Mul(p, sz), rc)
                size_u == DecimalToTokenU64(sz).value
                amount_u == DecimalToTokenU64(amount).value
            IN [err |-> "",
                order |-> [rule |-> rc, price |-> p, side |-> side,
                           maker_amount |-> IF side = "Buy" THEN amount_u ELSE size_u,
                           taker_amount |-> IF side = "Buy" THEN size_u ELSE amount_u,
                           signed |-> TRUE]]

\* ---- market orders
\* The mantissa of d at scale s >= d.scale
Align(d, s) == d.m * Pow(10, s - d.scale)

\* Decimal + Decimal, Decimal - Decimal, Decimal < Decimal
Add(a, b) ==
    LET s == IF a.scale >= b.scale THEN a.scale ELSE b.scale
    IN Dec(Align(a, s) + Align(b, s), s)
Sub(a, b) ==
    LET s == IF a.scale >= b.scale THEN a.scale ELSE b.scale
    IN Dec(Align(a, s) - Align(b, s), s)
Less(a, b) == Sub(a, b).m < 0

\* Decimal / Decimal for a >= 0, b > 0, kept to dp places (midpoint away from zero)
DivDp(a, b, dp) ==
    LET e == b.scale + dp - a.scale
        num == IF e >= 0 THEN a.m * Pow(10, e) ELSE a.m
        den == IF e >= 0 THEN b.m ELSE b.m * Pow(10, -e)
        q == num \div den
        r == num % den
    IN Dec(IF 2 * r >= den THEN q + 1 ELSE q, dp)

\* One level of a book side: {price, size}
Level(price, size) == [price |-> price, size |-> size]

\* Walk the levels in the book's order until the amount is filled: the value of the
\* sizes consumed, the last level counted for the part consumed only.
RECURSIVE WalkLevels(_, _, _)
WalkLevels(levels, remaining, total) ==
    IF remaining.m <= 0 THEN [filled |-> TRUE, total |-> total]
    ELSE IF levels = <<>> THEN [filled |-> FALSE, total |-> total]
    ELSE LET l == Head(levels)
             take == IF Less(remaining, l.size) THEN remaining ELSE l.size
         IN WalkLevels(Tail(levels), Sub(remaining, take), Add(total, Mul(l.price, take)))

\* Mutant of CalculateMarketPrice: a book that is too thin gives the average price of
\* the part it can fill.
CalculateMarketPricePartialFill(book_side, amount) ==
    LET w == WalkLevels(book_side, amount, Dec(0, 0))
    IN IF book_side = <<>> THEN [err |-> "InvalidOrder", price |-> Dec(0, 0)]
       ELSE [err |-> "", price |-> DivDp(w.total, amount, 6)]

\* Mutant of CalculateMarketPrice: the price of the last level reached.
CalculateMarketPriceLastLevel(book_side, amount) ==
    LET RECURSIVE Last(_, _)
        Last(levels, remaining) ==
            IF levels = <<>> THEN [err |-> "InvalidOrder", price |-> Dec(0, 0)]
            ELSE IF ~Less(Head(levels).size, remaining)
                 THEN [err |-> "", price |-> Head(levels).price]
            ELSE Last(Tail(levels), Sub(remaining, Head(levels).size))
    IN Last(book_side, amount)

\* calculate_market_price(book_side, amount): the size-weighted average price of the
\* levels consumed; InvalidOrder when the side cannot fill the amount.
CalculateMarketPrice(book_side, amount) ==
    LET w == WalkLevels(book_side, amount, Dec(0, 0))
    IN IF ~w.filled THEN [err |-> "InvalidOrder", price |-> Dec(0, 0)]
       ELSE [err |-> "", price |-> DivDp(w.total, amount, 6)]

\* OrderBuilder::create_market_order, the callee of TradingClient::create_market_order:
\* the order of the amount at the derived price, built by the rounding algorithm
OrderBuilderCreateMarketOrder(tick_size, amount, price, side) ==
    OrderBuilderCreateOrder(tick_size, price, amount, side)

\* An order book: bids and asks, each a sequence of levels
NoBook == [bids |-> <<>>, asks |-> <<>>]

\* Mutant of TradingClientCreateMarketOrder: a failed price derivation does not stop
\* the call; the builder is run with the price left at zero.
TradingClientCreateMarketOrderBuildsAnyway(tick_size, amount, side, order_book) ==
    LET book_side == IF side = "Buy" THEN order_book.asks ELSE order_book.bids
        price == CalculateMarketPrice(book_side, amount)
        r == OrderBuilderCreateMarketOrder(tick_size, amount, price.price, side)
    IN [err |-> IF price.err # "" THEN price.err ELSE r.err, price |-> price.price,
        order |-> r.order]

\* TradingClient::create_market_order(order_args, order_book, .., options)
TradingClientCreateMarketOrder(tick_size, amount, side, order_book) ==
    LET book_side == IF side = "Buy" THEN order_book.asks ELSE order_book.bids
        price == CalculateMarketPrice(book_side, amount)
    IN IF price.err # "" THEN [err |-> price.err, price |-> price.price, order |-> NoOrder]
       ELSE LET r == OrderBuilderCreateMarketOrder(tick_size, amount, price.price, side)
            IN [err |-> r.err, price |-> price.price, order |-> r.order]

\* No rounding operation has been called yet.
NoIn ==
    [op |-> "", tick |-> Dec(0, 0), amt |-> Dec(0, 0), cfg |-> RoundConfig(0, 0, 0),
     price |-> Dec(0, 0), size |-> Dec(0, 0), side |-> "", book |-> NoBook]

NoOut ==
    [panic |-> FALSE, value |-> 0, dec |-> Dec(0, 0), found |-> {}, err |-> "",
     order |-> NoOrder, price |-> Dec(0, 0)]

\* ------------------------------------------------------------------ actions
\* Arguments of a client operation; an operation reads only its own.
NoArgs == [params |-> <<>>, order_id |-> "", ids |-> <<>>, market |-> {}, asset_id |-> {}]

\* No client operation has been called yet.
NoCall == [client |-> "", op |-> "", args |-> NoArgs, effects |-> <<>>, result |-> ""]

\* No REST client and no order builder takes part in a run of the stream.
RestIdle ==
    /\ api_creds = FALSE
    /\ call = NoCall
    /\ rin = NoIn
    /\ rout = NoOut

\* ReconnectingStream::new
Init ==
    /\ config \in Configs
    /\ state = Connecting(0, "none")
    /\ backoff = ExponentialBackoff(config.initial_delay, config.max_delay,
                                    config.multiplier)
    /\ sleep_future = NoSleep
    /\ conn = NoConn
    /\ out = NotPolled
    /\ yielded = <<>>
    /\ connectCalls = 0
    /\ nextId = 1
    /\ woken = FALSE
    /\ seen = "none"
    /\ okProduced = <<>>
    /\ everConnected = FALSE
    /\ which = "market"
    /\ consumed = <<>>
    /\ trail = <<>>
    /\ lossAt = -1
    /\ dropped = FALSE
    /\ RestIdle

\* The consumer polls the stream once (stream.next()).
Poll ==
    \E cr \in {"ok", "err", "pending"} :
        LET r == PollNext(Self, cr)
        IN /\ ~dropped
           /\ r.m.connectCalls <= MaxConnects
           /\ state' = r.m.state
           /\ backoff' = r.m.backoff
           /\ sleep_future' = r.m.sleep_future
           /\ conn' = r.m.conn
           /\ connectCalls' = r.m.connectCalls
           /\ seen' = r.m.seen
           /\ okProduced' = r.m.okProduced
           /\ everConnected' = r.m.everConnected
           /\ out' = r.ret
           /\ yielded' = IF r.ret.tag = "Some" THEN Append(yielded, r.ret.item)
                         ELSE yielded
           /\ woken' = FALSE
           /\ trail' = r.m.trail
           /\ lossAt' = r.m.lossAt
           /\ UNCHANGED <<config, nextId, which, consumed, dropped, restVars>>

\* The network delivers one more frame on the open connection.
Receive ==
    \E k \in StreamFrameKinds :
        /\ conn.open
        /\ Len(conn.q) < MaxNet
        /\ nextId <= MaxFrames
        /\ (IF conn.q = <<>> THEN TRUE ELSE conn.q[Len(conn.q)].kind # "eof")
        /\ conn' = [conn EXCEPT !.q = Append(@, [kind |-> k, id |-> nextId]),
                                !.waker = FALSE]
        /\ woken' = (woken \/ conn.waker)
        /\ nextId' = nextId + 1
        /\ UNCHANGED <<config, state, backoff, sleep_future, out, yielded, connectCalls,
                       seen, okProduced, everConnected, which, consumed, trail, lossAt,
                       dropped, restVars>>

\* The reconnection delay elapses; the task is woken only if the Sleep was polled.
TimerFire ==
    /\ sleep_future.armed
    /\ ~sleep_future.elapsed
    /\ sleep_future' = [sleep_future EXCEPT !.elapsed = TRUE]
    /\ woken' = (woken \/ sleep_future.registered)
    /\ UNCHANGED <<config, state, backoff, conn, out, yielded, connectCalls, nextId,
                   seen, okProduced, everConnected, which, consumed, trail, lossAt,
                       dropped, restVars>>

\* A connect attempt that was pending completes.
ConnectResolve ==
    \E r \in {"ok", "err"} :
        /\ state.tag = "Connecting"
        /\ state.future = "pending"
        /\ state' = [state EXCEPT !.future = r]
        /\ woken' = TRUE
        /\ UNCHANGED <<config, backoff, sleep_future, conn, out, yielded, connectCalls,
                       nextId, seen, okProduced, everConnected, which, consumed, trail, lossAt,
                       dropped, restVars>>

Next == Poll \/ Receive \/ TimerFire \/ ConnectResolve

Spec == Init /\ [][Next]_vars

\* ------------------------------------------------------------------ scheduling
\* One consumer task awaits stream.next(): it polls when it asks for the next item
\* (the last poll returned an item or nothing was polled yet) and, after a Pending,
\* only once a waker registered with it has been woken.
AwaitedPoll ==
    /\ out.tag # "Pending" \/ woken
    /\ Poll

FairNext == AwaitedPoll \/ Receive \/ TimerFire \/ ConnectResolve

\* The executor runs a woken task and the runtime's timer fires; the network and the
\* connect operation owe nothing.
FairSpec == Init /\ [][FairNext]_vars /\ WF_vars(AwaitedPoll) /\ WF_vars(TimerFire)

\* ReconnectConfig::default
DefaultConfig ==
    [initial_delay |-> 1, max_delay |-> 60, multiplier |-> 2, max_attempts |-> {}]

\* ------------------------------------------------------------------ lifetime
\* The life of one wrapper from ReconnectingStream::new to its drop, with every value
\* of self.state recorded.
\* Mutant of DropFields: the delay timer lives on after the wrapper (as it would in a
\* spawned task).
DropFieldsLeakSleep(m) ==
    [state |-> [m.state EXCEPT !.future = "none"], conn |-> NoConn,
     sleep_future |-> m.sleep_future]

\* Dropping a ReconnectingStream drops its fields: state owns the inner stream
\* (Connected(S)) or the connect future (Connecting { future }), sleep_future owns
\* the timer.  Nothing is shared or spawned.
DropFields(m) ==
    [state |-> [m.state EXCEPT !.future = "none"], conn |-> NoConn,
     sleep_future |-> NoSleep]

\* The consumer drops the wrapper.
Drop ==
    /\ ~dropped
    /\ dropped' = TRUE
    /\ LET d == DropFields(Self)
       IN /\ state' = d.state
          /\ conn' = d.conn
          /\ sleep_future' = d.sleep_future
    /\ UNCHANGED <<config, backoff, out, yielded, connectCalls, nextId, woken, seen,
                   okProduced, everConnected, which, consumed, trail, lossAt, restVars>>

\* ReconnectingStream::new, with the default delays and any attempt budget
LifeInit ==
    /\ config \in {c \in Configs : /\ c.initial_delay = DefaultConfig.initial_delay
                                   /\ c.max_delay = DefaultConfig.max_delay}
    /\ state = Connecting(0, "none")
    /\ backoff = ExponentialBackoff(config.initial_delay, config.max_delay,
                                    config.multiplier)
    /\ sleep_future = NoSleep
    /\ conn = NoConn
    /\ out = NotPolled
    /\ yielded = <<>>
    /\ connectCalls = 0
    /\ nextId = 1
    /\ woken = FALSE
    /\ seen = "none"
    /\ okProduced = <<>>
    /\ everConnected = FALSE
    /\ which = "market"
    /\ consumed = <<>>
    /\ trail = <<state.tag>>
    /\ lossAt = -1
    /\ dropped = FALSE
    /\ RestIdle

LifeNext == Poll \/ Receive \/ TimerFire \/ ConnectResolve \/ Drop

LifeSpec == LifeInit /\ [][LifeNext]_vars

\* ------------------------------------------------------------------ raw streams
\* One call of MarketWsClient::subscribe / UserWsClient::subscribe, and the stream it
\* returned polled directly by the consumer.
RawInit ==
    /\ which \in {"market", "user"}
    /\ config = DefaultConfig
    /\ state = Connected
    /\ backoff = ExponentialBackoff(config.initial_delay, config.max_delay,
                                    config.multiplier)
    /\ sleep_future = NoSleep
    /\ conn = NoConn
    /\ out = NotPolled
    /\ yielded = <<>>
    /\ connectCalls = 0
    /\ nextId = 1
    /\ woken = FALSE
    /\ seen = "none"
    /\ okProduced = <<>>
    /\ everConnected = TRUE
    /\ consumed = <<>>
    /\ trail = <<>>
    /\ lossAt = -1
    /\ dropped = FALSE
    /\ RestIdle

\* client.subscribe(..).await: the handshake, and the stream if it succeeded
RawSubscribe ==
    \E h \in Handshakes :
        /\ call = NoCall
        /\ LET s == Subscribe(which, h)
           IN /\ call' = [NoCall EXCEPT
                             !.client = IF which = "market" THEN "MarketWsClient"
                                        ELSE "UserWsClient",
                             !.op = "subscribe", !.effects = s.steps,
                             !.result = s.result]
              /\ conn' = s.stream
        /\ UNCHANGED <<config, state, backoff, sleep_future, out, yielded, connectCalls,
                       nextId, woken, seen, okProduced, everConnected, which, consumed,
                       trail, lossAt, dropped, api_creds, rin, rout>>

\* The consumer polls the raw stream (until it ends).
RawPoll ==
    /\ call.result = "Ok"
    /\ out.tag # "None"
    /\ LET ip == FilterMapPoll(which, conn.q, <<>>)
       IN /\ conn' = [conn EXCEPT !.q = ip.q,
                                  !.waker = (ip.res.tag = "Pending"),
                                  !.open = (ip.res.tag # "None")]
          /\ out' = ip.res
          /\ yielded' = IF ip.res.tag = "Some" THEN Append(yielded, ip.res.item)
                        ELSE yielded
          /\ consumed' = consumed \o ip.taken
    /\ woken' = FALSE
    /\ UNCHANGED <<config, state, backoff, sleep_future, connectCalls, nextId, seen,
                   okProduced, everConnected, which, trail, lossAt, dropped, restVars>>

\* The socket receives one more frame of any kind.
RawReceive ==
    \E k \in FrameKinds :
        /\ conn.open
        /\ Len(conn.q) < MaxNet
        /\ nextId <= MaxFrames
        /\ (IF conn.q = <<>> THEN TRUE ELSE conn.q[Len(conn.q)].kind # "eof")
        /\ conn' = [conn EXCEPT !.q = Append(@, [kind |-> k, id |-> nextId]),
                                !.waker = FALSE]
        /\ woken' = (woken \/ conn.waker)
        /\ nextId' = nextId + 1
        /\ UNCHANGED <<config, state, backoff, sleep_future, out, yielded, connectCalls,
                       seen, okProduced, everConnected, which, consumed, trail, lossAt,
                       dropped, restVars>>

RawNext == RawSubscribe \/ RawPoll \/ RawReceive

RawSpec == RawInit /\ [][RawNext]_vars

\* ------------------------------------------------------------------ REST clients
\* No stream takes part in a run of the REST clients or of the order rounding.
StreamIdle ==
    /\ config = DefaultConfig
    /\ state = Terminated
    /\ backoff = ExponentialBackoff(config.initial_delay, config.max_delay,
                                    config.multiplier)
    /\ sleep_future = NoSleep
    /\ conn = NoConn
    /\ out = NotPolled
    /\ yielded = <<>>
    /\ connectCalls = 0
    /\ nextId = 1
    /\ woken = FALSE
    /\ seen = "none"
    /\ okProduced = <<>>
    /\ everConnected = FALSE
    /\ which = "market"
    /\ consumed = <<>>
    /\ trail = <<>>
    /\ lossAt = -1
    /\ dropped = FALSE

streamVars ==
    <<config, state, backoff, sleep_future, conn, out, yielded, connectCalls, nextId,
      woken, seen, okProduced, everConnected, which, consumed, trail, lossAt, dropped>>

\* A path is the sequence of the pieces format! puts together; a body is a JSON value.
NoBody == [json |-> "None", arg |-> <<>>]
Body(j, a) == [json |-> j, arg |-> a]

\* query_params.iter().map(|(k, v)| format!("{}={}", k, v)).collect().join("&")
RECURSIVE JoinQuery(_)
JoinQuery(qp) ==
    IF qp = <<>> THEN <<>>
    ELSE <<qp[1][1], "=", qp[1][2]>>
         \o (IF Len(qp) > 1 THEN <<"&">> \o JoinQuery(Tail(qp)) ELSE <<>>)

\* if query_params.is_empty() { base_path } else { format!("{}?{}", base_path, ..) }
RequestPath(base_path, qp) ==
    IF qp = <<>> THEN <<base_path>> ELSE <<base_path, "?">> \o JoinQuery(qp)

\* Option<&str>::unwrap_or("")
UnwrapOrEmpty(opt) == IF opt = {} THEN "" ELSE CHOOSE x \in opt : TRUE

\* What a call does, in order: signing of headers, HTTP requests, order building
L1Sign(ok) == [kind |-> "l1sign", method |-> "", path |-> <<>>, body |-> NoBody, ok |-> ok]
L2Sign(method, path, body, ok) ==
    [kind |-> "l2sign", method |-> method, path |-> path, body |-> body, ok |-> ok]
Http(method, path, body, ok) ==
    [kind |-> "http", method |-> method, path |-> path, body |-> body, ok |-> ok]
Local(what, ok) == [kind |-> what, method |-> "", path |-> <<>>, body |-> NoBody, ok |-> ok]

\* What the environment answers to the fallible steps of one call
Answers == [sign : BOOLEAN, http : BOOLEAN, sign2 : BOOLEAN, http2 : BOOLEAN,
            price : BOOLEAN, build : BOOLEAN]

\* let headers = create_l1_headers(..)?; self.http_client.<method>(path, .., Some(headers)).await
L1Request(method, path, body, signOk, httpOk) ==
    IF ~signOk THEN [effects |-> <<L1Sign(FALSE)>>, result |-> "SignErr"]
    ELSE [effects |-> <<L1Sign(TRUE), Http(method, path, body, httpOk)>>,
          result |-> IF httpOk THEN "Ok" ELSE "HttpErr"]

\* Mutant of L2Request: a failed request is sent once more.
L2RequestRetrying(signed, method, path, body, signOk, httpOk) ==
    IF ~signOk THEN [effects |-> <<L2Sign(signed[1], signed[2], signed[3], FALSE)>>,
                     result |-> "SignErr"]
    ELSE IF httpOk
         THEN [effects |-> <<L2Sign(signed[1], signed[2], signed[3], TRUE),
                             Http(method, path, body, TRUE)>>,
               result |-> "Ok"]
         ELSE [effects |-> <<L2Sign(signed[1], signed[2], signed[3], TRUE),
                             Http(method, path, body, FALSE),
                             Http(method, path, body, FALSE)>>,
               result |-> "HttpErr"]

\* let headers = create_l2_headers(.., method, path, body)?;
\* self.http_client.<method>(request_path, .., Some(headers)).await
\* signed is the (method, path, body) handed to create_l2_headers.
L2Request(signed, method, path, body, signOk, httpOk) ==
    IF ~signOk THEN [effects |-> <<L2Sign(signed[1], signed[2], signed[3], FALSE)>>,
                     result |-> "SignErr"]
    ELSE [effects |-> <<L2Sign(signed[1], signed[2], signed[3], TRUE),
                        Http(method, path, body, httpOk)>>,
          result |-> IF httpOk THEN "Ok" ELSE "HttpErr"]

\* Mutant of RequireCreds: missing credentials are replaced by default ones.
RequireCredsOrDefault(creds, r) == r

\* self.api_creds.as_ref().ok_or_else(|| Error::AuthRequired(..))? before the rest r
RequireCreds(creds, r) ==
    IF creds THEN r ELSE [effects |-> <<>>, result |-> "AuthRequired"]

\* ---- AuthenticatedClient
CreateApiKey(signOk, httpOk) ==
    L1Request("POST", <<"/auth/api-key">>, Body("{}", <<>>), signOk, httpOk)

DeriveApiKey(signOk, httpOk) ==
    L1Request("GET", <<"/auth/derive-api-key">>, NoBody, signOk, httpOk)

CreateOrDeriveApiKey(o) ==
    LET c == CreateApiKey(o.sign, o.http)
    IN IF c.result = "Ok" THEN c
       ELSE LET d == DeriveApiKey(o.sign2, o.http2)
            IN [effects |-> c.effects \o d.effects, result |-> d.result]

GetApiKeys(creds, o) ==
    RequireCreds(creds,
        L2Request(<<"GET", <<"/auth/api-keys">>, NoBody>>,
                  "GET", <<"/auth/api-keys">>, NoBody, o.sign, o.http))

DeleteApiKey(creds, o) ==
    RequireCreds(creds,
        L2Request(<<"DELETE", <<"/auth/api-key">>, NoBody>>,
                  "DELETE", <<"/auth/api-key">>, NoBody, o.sign, o.http))

GetBalanceAllowance(creds, a, o) ==
    LET base_path == "/balance-allowance"
        request_path == RequestPath(base_path, a.params)
    IN RequireCreds(creds,
           L2Request(<<"GET", <<base_path>>, NoBody>>,
                     "GET", request_path, NoBody, o.sign, o.http))

UpdateBalanceAllowance(creds, o) ==
    RequireCreds(creds,
        L2Request(<<"GET", <<"/balance-allowance/update">>, NoBody>>,
                  "GET", <<"/balance-allowance/update">>, NoBody, o.sign, o.http))

GetNotifications(creds, o) ==
    RequireCreds(creds,
        L2Request(<<"GET", <<"/notifications">>, NoBody>>,
                  "GET", <<"/notifications">>, NoBody, o.sign, o.http))

DropNotifications(creds, a, o) ==
    LET body == Body("{ids}", a.ids)
    IN RequireCreds(creds,
           L2Request(<<"DELETE", <<"/notifications">>, body>>,
                     "DELETE", <<"/notifications">>, body, o.sign, o.http))

\* ---- TradingClient (api_creds: ApiCreds is always there)
\* self.order_builder.create_order(..): local, builds and signs the order
CreateOrder(o) ==
    [effects |-> <<Local("build", o.build)>>,
     result |-> IF o.build THEN "Ok" ELSE "BuildErr"]

\* calculate_market_price(..)? then self.order_builder.create_market_order(..)
CreateMarketOrder(o) ==
    IF ~o.price THEN [effects |-> <<Local("price", FALSE)>>, result |-> "PriceErr"]
    ELSE [effects |-> <<Local("price", TRUE), Local("build", o.build)>>,
          result |-> IF o.build THEN "Ok" ELSE "BuildErr"]

PostOrder(o) ==
    LET post_order == Body("PostOrder", <<"order", "owner", "order_type">>)
    IN L2Request(<<"POST", <<"/order">>, post_order>>,
                 "POST", <<"/order">>, post_order, o.sign, o.http)

CreateAndPostOrder(o) ==
    LET c == CreateOrder(o)
    IN IF c.result # "Ok" THEN c
       ELSE LET p == PostOrder(o)
            IN [effects |-> c.effects \o p.effects, result |-> p.result]

\* Mutant of GetOrders: the headers are computed over the path with its query string.
GetOrdersSignsRequestPath(a, o) ==
    LET base_path == "/data/orders"
        request_path == RequestPath(base_path, a.params)
    IN L2Request(<<"GET", request_path, NoBody>>,
                 "GET", request_path, NoBody, o.sign, o.http)

GetOrders(a, o) ==
    LET base_path == "/data/orders"
        request_path == RequestPath(base_path, a.params)
    IN L2Request(<<"GET", <<base_path>>, NoBody>>,
                 "GET", request_path, NoBody, o.sign, o.http)

GetOrder(a, o) ==
    LET path == <<"/data/order/", a.order_id>>
    IN L2Request(<<"GET", path, NoBody>>, "GET", path, NoBody, o.sign, o.http)

Cancel(a, o) ==
    LET body == Body("{orderID}", <<a.order_id>>)
    IN L2Request(<<"DELETE", <<"/order">>, body>>,
                 "DELETE", <<"/order">>, body, o.sign, o.http)

CancelOrders(a, o) ==
    LET body == Body("[ids]", a.ids)
    IN L2Request(<<"DELETE", <<"/orders">>, body>>,
                 "DELETE", <<"/orders">>, body, o.sign, o.http)

CancelAll(o) ==
    LET body == Body("{}", <<>>)
    IN L2Request(<<"DELETE", <<"/cancel-all">>, body>>,
                 "DELETE", <<"/cancel-all">>, body, o.sign, o.http)

CancelMarketOrders(a, o) ==
    LET body == Body("{market,asset_id}",
                     <<UnwrapOrEmpty(a.market), UnwrapOrEmpty(a.asset_id)>>)
    IN L2Request(<<"DELETE", <<"/cancel-market-orders">>, body>>,
                 "DELETE", <<"/cancel-market-orders">>, body, o.sign, o.http)

GetTrades(a, o) ==
    LET base_path == "/data/trades"
        request_path == RequestPath(base_path, a.params)
    IN L2Request(<<"GET", <<base_path>>, NoBody>>,
                 "GET", request_path, NoBody, o.sign, o.http)

IsOrderScoring(a, o) ==
    LET base_path == "/order-scoring"
        request_path == <<base_path, "?", "id", "=", a.order_id>>
    IN L2Request(<<"GET", <<base_path>>, NoBody>>,
                 "GET", request_path, NoBody, o.sign, o.http)

AreOrdersScoring(a, o) ==
    LET body == Body("[ids]", a.ids)
    IN L2Request(<<"POST", <<"/orders-scoring">>, body>>,
                 "POST", <<"/orders-scoring">>, body, o.sign, o.http)

\* ---- inputs
QueryParamLists ==
    {<<>>, <<<<"market", "m1">>>>, <<<<"market", "m1">>, <<"asset_id", "a1">>>>}
OrderIds == {"o1", "o2"}
IdLists == {<<>>, <<"o1">>, <<"o1", "o2">>}

AuthenticatedOps ==
    {"create_api_key", "derive_api_key", "create_or_derive_api_key", "get_api_keys",
     "delete_api_key", "get_balance_allowance", "update_balance_allowance",
     "get_notifications", "drop_notifications"}

TradingOps ==
    {"create_order", "create_market_order", "post_order", "create_and_post_order",
     "get_orders", "get_order", "cancel", "cancel_orders", "cancel_all",
     "cancel_market_orders", "get_trades", "is_order_scoring", "are_orders_scoring"}

\* The arguments an operation takes
ArgsOf(op) ==
    CASE op \in {"get_balance_allowance", "get_orders", "get_trades"} ->
           {[NoArgs EXCEPT !.params = q] : q \in QueryParamLists}
      [] op \in {"get_order", "cancel", "is_order_scoring"} ->
           {[NoArgs EXCEPT !.order_id = i] : i \in OrderIds}
      [] op \in {"drop_notifications", "cancel_orders", "are_orders_scoring"} ->
           {[NoArgs EXCEPT !.ids = l] : l \in IdLists}
      [] op = "cancel_market_orders" ->
           {[NoArgs EXCEPT !.market = m, !.asset_id = x] :
                m \in {{}, {"m1"}}, x \in {{}, {"a1"}}}
      [] OTHER -> {NoArgs}

\* The answers an operation can come to ask for
AnswersOf(op) ==
    CASE op = "create_or_derive_api_key" ->
           {o \in Answers : o.price /\ o.build}
      [] op = "create_order" ->
           {o \in Answers : o.sign /\ o.http /\ o.sign2 /\ o.http2 /\ o.price}
      [] op = "create_market_order" ->
           {o \in Answers : o.sign /\ o.http /\ o.sign2 /\ o.http2}
      [] op = "create_and_post_order" ->
           {o \in Answers : o.sign2 /\ o.http2 /\ o.price}
      [] OTHER ->
           {o \in Answers : o.sign2 /\ o.http2 /\ o.price /\ o.build}

\* ---- actions
\* AuthenticatedClient::new with or without API credentials
ClientInit ==
    /\ api_creds \in BOOLEAN
    /\ call = NoCall
    /\ rin = NoIn
    /\ rout = NoOut
    /\ StreamIdle

\* One call of an operation of AuthenticatedClient
AuthenticatedCall ==
    \E op \in AuthenticatedOps :
      \E a \in ArgsOf(op), o \in AnswersOf(op) :
        LET r == CASE op = "create_api_key" -> CreateApiKey(o.sign, o.http)
                   [] op = "derive_api_key" -> DeriveApiKey(o.sign, o.http)
                   [] op = "create_or_derive_api_key" -> CreateOrDeriveApiKey(o)
                   [] op = "get_api_keys" -> GetApiKeys(api_creds, o)
                   [] op = "delete_api_key" -> DeleteApiKey(api_creds, o)
                   [] op = "get_balance_allowance" ->
                        GetBalanceAllowance(api_creds, a, o)
                   [] op = "update_balance_allowance" ->
                        UpdateBalanceAllowance(api_creds, o)
                   [] op = "get_notifications" -> GetNotifications(api_creds, o)
                   [] op = "drop_notifications" -> DropNotifications(api_creds, a, o)
        IN /\ call' = [client |-> "AuthenticatedClient", op |-> op, args |-> a,
                       effects |-> r.effects, result |-> r.result]
           /\ UNCHANGED <<api_creds, rin, rout, streamVars>>

\* One call of an operation of TradingClient
TradingCall ==
    \E op \in TradingOps :
      \E a \in ArgsOf(op), o \in AnswersOf(op) :
        LET r == CASE op = "create_order" -> CreateOrder(o)
                   [] op = "create_market_order" -> CreateMarketOrder(o)
                   [] op = "post_order" -> PostOrder(o)
                   [] op = "create_and_post_order" -> CreateAndPostOrder(o)
                   [] op = "get_orders" -> GetOrders(a, o)
                   [] op = "get_order" -> GetOrder(a, o)
                   [] op = "cancel" -> Cancel(a, o)
                   [] op = "cancel_orders" -> CancelOrders(a, o)
                   [] op = "cancel_all" -> CancelAll(o)
                   [] op = "cancel_market_orders" -> CancelMarketOrders(a, o)
                   [] op = "get_trades" -> GetTrades(a, o)
                   [] op = "is_order_scoring" -> IsOrderScoring(a, o)
                   [] op = "are_orders_scoring" -> AreOrdersScoring(a, o)
        IN /\ call' = [client |-> "TradingClient", op |-> op, args |-> a,
                       effects |-> r.effects, result |-> r.result]
           /\ UNCHANGED <<api_creds, rin, rout, streamVars>>

ClientNext == AuthenticatedCall \/ TradingCall

ClientSpec == ClientInit /\ [][ClientNext]_vars

\* ------------------------------------------------------------------ order rounding runs
\* ---- inputs
TickSizes ==
    {Dec(1, 1), Dec(1, 2), Dec(1, 3), Dec(1, 4), Dec(10, 2), Dec(100, 5),
     Dec(1, 5), Dec(5, 1), Dec(5, 2), Dec(1, 0), Dec(0, 0)}

TokenMantissas == {-15, 0, 1, 5, 15, 25, 150, 999, 1234, 1500, 2000}
TokenInputs == {Dec(m, sc) : m \in TokenMantissas, sc \in 0..MaxTokenScale}

AmountMantissas == {-123456789, 0, 1, 5, 49995, 123456789, 999999999, 1000000001}
AmountInputs == {Dec(m, sc) : m \in AmountMantissas, sc \in 0..MaxScale}

Prices == {Dec(5, 1), Dec(45, 2), Dec(125, 3), Dec(555, 4), Dec(5555, 5)}
Sizes == {Dec(1, 0), Dec(2, 0)}
Sides == {"Buy", "Sell"}

\* Book snapshots: asks ascending, bids descending, sides of different depth
AskSides ==
    {<<>>,
     <<Level(Dec(40, 2), Dec(10, 0)), Level(Dec(45, 2), Dec(20, 0))>>,
     <<Level(Dec(50, 2), Dec(5, 0)), Level(Dec(55, 2), Dec(5, 0)),
       Level(Dec(6, 1), Dec(105, 1))>>}
BidSides ==
    {<<Level(Dec(39, 2), Dec(15, 0))>>,
     <<Level(Dec(38, 2), Dec(25, 1)), Level(Dec(35, 2), Dec(10, 0)),
       Level(Dec(3, 1), Dec(30, 0))>>}
Books == [bids : BidSides, asks : AskSides]
Amounts == {Dec(25, 1), Dec(5, 0), Dec(10, 0), Dec(15, 0), Dec(20, 0), Dec(30, 0),
            Dec(40, 0), Dec(50, 0)}
MarketTickSizes == {Dec(1, 1), Dec(1, 2), Dec(5, 2)}

\* ---- actions
RoundInit ==
    /\ api_creds = FALSE
    /\ call = NoCall
    /\ rin = NoIn
    /\ rout = NoOut
    /\ StreamIdle

\* ROUNDING_CONFIG.get(&tick_size)
GetRoundConfig ==
    \E t \in TickSizes :
        /\ rin' = [NoIn EXCEPT !.op = "get", !.tick = t]
        /\ rout' = [NoOut EXCEPT !.found = Get(t)]
        /\ UNCHANGED <<api_creds, call, streamVars>>

\* decimal_to_token_u64(amt)
ToToken ==
    \E x \in TokenInputs :
        LET r == DecimalToTokenU64(x)
        IN /\ rin' = [NoIn EXCEPT !.op = "decimal_to_token_u64", !.amt = x]
           /\ rout' = [NoOut EXCEPT !.panic = r.panic, !.value = r.value]
           /\ UNCHANGED <<api_creds, call, streamVars>>

\* fix_amount_rounding(amt, &round_config) with a config of the table
FixAmount ==
    \E x \in AmountInputs, e \in ROUNDING_CONFIG :
        /\ rin' = [NoIn EXCEPT !.op = "fix_amount_rounding", !.amt = x, !.cfg = e.cfg]
        /\ rout' = [NoOut EXCEPT !.dec = FixAmountRounding(x, e.cfg)]
        /\ UNCHANGED <<api_creds, call, streamVars>>

\* TradingClient::create_order(order_args, .., options): the builder does the work
BuildOrder ==
    \E t \in TickSizes, price \in Prices, size \in Sizes, side \in Sides :
        LET r == OrderBuilderCreateOrder(t, price, size, side)
        IN /\ rin' = [NoIn EXCEPT !.op = "create_order", !.tick = t, !.price = price,
                                  !.size = size, !.side = side]
           /\ rout' = [NoOut EXCEPT !.err = r.err, !.order = r.order]
           /\ UNCHANGED <<api_creds, call, streamVars>>

\* TradingClient::create_market_order against a book snapshot
BuildMarketOrder ==
    \E t \in MarketTickSizes, amount \in Amounts, side \in Sides, b \in Books :
        LET r == TradingClientCreateMarketOrder(t, amount, side, b)
        IN /\ rin' = [NoIn EXCEPT !.op = "create_market_order", !.tick = t,
                                  !.amt = amount, !.side = side, !.book = b]
           /\ rout' = [NoOut EXCEPT !.err = r.err, !.order = r.order, !.price = r.price]
           /\ UNCHANGED <<api_creds, call, streamVars>>

RoundNext == GetRoundConfig \/ ToToken \/ FixAmount \/ BuildOrder \/ BuildMarketOrder

RoundSpec == RoundInit /\ [][RoundNext]_vars

\* ------------------------------------------------------------------ claims
LastYielded == IF yielded = <<>> THEN NoItem ELSE yielded[Len(yielded)]

OkIds(items) ==
    LET oks == SelectSeq(items, LAMBDA it : it.kind = "Ok")
    IN [i \in 1..Len(oks) |-> oks[i].id]

\* C1: while no connect has ever succeeded, the delay taken for the n-th consecutive
\* failure (n = 0, 1, ...) is min(initial_delay * multiplier^n, max_delay).
C1_DelayIsCappedPower ==
    (~everConnected /\ state.tag = "Reconnecting")
        => state.delay = Min(config.initial_delay
                                * Pow(config.multiplier, connectCalls - 1),
                             config.max_delay)

\* C2: after the wrapper forwarded an Ok item the backoff stands at the configured
\* initial_delay, so the next disconnection waits initial_delay.
C2_ResetRestoresInitialDelay ==
    (out.tag = "Some" /\ out.item.kind = "Ok")
        => backoff.current_delay = config.initial_delay

\* C3: with max_attempts = Some(N), N >= 1, and every connect failing: connect is
\* invoked at most N times, the only item ever yielded is one ReconnectFailed with
\* attempts = N, yielded by the pull in which the N-th connect fails, and every pull
\* after it returns end-of-stream.
C3_AlwaysFailingConnect ==
    \A n \in 1..MaxConnects :
        (config.max_attempts = {n} /\ ~everConnected) =>
            /\ connectCalls <= n
            /\ yielded \in {<<>>, <<ReconnectFailed(n)>>}
            /\ (yielded # <<>>) <=> (state.tag = "Terminated")
            /\ state.tag = "Terminated" =>
                  /\ connectCalls = n
                  /\ out \in {ReadySome(ReconnectFailed(n)), ReadyNone}
            /\ out.tag = "Some" => (seen = "ConnectErr" /\ connectCalls = n)
            /\ out.tag = "None" => state.tag = "Terminated"

\* C3 witness: budget 3, three failed connects, ReconnectFailed{3} yielded, then end-of-stream.
C3_Witness ==
    /\ config.max_attempts = {3}
    /\ ~everConnected
    /\ state.tag = "Terminated"
    /\ connectCalls = 3
    /\ yielded = <<ReconnectFailed(3)>>
    /\ out = ReadyNone

\* C4: after a clean end, a ConnectionClosed or a failed connect with budget left,
\* the wrapper eventually leaves Reconnecting (and so re-invokes connect).
C4_EventuallyReconnects ==
    [](( /\ state.tag = "Reconnecting"
         /\ seen \in {"End", "ConnectionClosed", "ConnectErr"}
         /\ connectCalls < MaxConnects )
        => <>(state.tag # "Reconnecting"))

C6_LastItemIsReconnectFailed ==
    state.tag = "Terminated" => LastYielded.err = "ReconnectFailed"

\* C7: with max_attempts = None the wrapper never enters Terminated, never yields
\* ReconnectFailed and never yields end-of-stream.
C7_NoBudgetNeverTerminates ==
    config.max_attempts = {} =>
        /\ state.tag # "Terminated"
        /\ out.tag # "None"
        /\ \A i \in 1..Len(yielded) : yielded[i].err # "ReconnectFailed"

\* C7 witness: no budget, a loss of an established connection followed by failed
\* connects up to attempt 3, still reconnecting.
C7_Witness ==
    /\ config.max_attempts = {}
    /\ state.tag = "Reconnecting"
    /\ state.attempts >= 3
    /\ everConnected
    /\ \E i \in 1..Len(yielded) : yielded[i].kind = "Err"

\* C8: when the wrapper yields a parse (Json) error item it keeps the connection: it
\* stays Connected with the inner stream open, so the following items are forwarded.
C8_ParseErrorKeepsConnection ==
    (out.tag = "Some" /\ out.item.err = "Json")
        => (state.tag = "Connected" /\ conn.open)

\* C9: on the raw market and user streams an unparsable text message yields exactly
\* one Err(Json) item and the stream stays open: every event message taken after it
\* is yielded, items come in arrival order, and the stream ends only at the socket's end.
C9_RawParseFailureIsOneItem ==
    /\ \A i \in 1..Len(consumed) :
          /\ consumed[i].kind \in {"bad_text", "arr_bad"} =>
                /\ Cardinality({j \in 1..Len(yielded) : yielded[j].id = consumed[i].id}) = 1
                /\ \E j \in 1..Len(yielded) :
                      yielded[j] = ErrItem("Json", consumed[i].id)
          /\ consumed[i].kind \in {"obj_ok", "arr_ok"} =>
                /\ Cardinality({j \in 1..Len(yielded) : yielded[j].id = consumed[i].id}) = 1
                /\ \E j \in 1..Len(yielded) : yielded[j] = OkItem(consumed[i].id)
    /\ \A j \in 1..Len(yielded) - 1 : yielded[j].id < yielded[j + 1].id
    /\ out.tag = "None" =>
          (consumed # <<>> /\ consumed[Len(consumed)].kind = "eof")

\* C9 witness: two unparsable texts (object, array) then an event, all three yielded in order.
C9_Witness ==
    /\ Len(consumed) >= 3
    /\ consumed[1].kind = "bad_text"
    /\ consumed[2].kind = "arr_bad"
    /\ consumed[3].kind = "obj_ok"
    /\ yielded = <<ErrItem("Json", 1), ErrItem("Json", 2), OkItem(3)>>

\* C10: the Ok items the wrapper has yielded are exactly, in order, the Ok items the
\* successive inner streams returned before their first error or end.
C10_OkItemsAreInnerItemsInOrder ==
    OkIds(yielded) = okProduced

\* C10 witness: Ok items from a run with an error and a reconnection in between.
C10_Witness ==
    /\ connectCalls >= 2
    /\ Len(okProduced) >= 2
    /\ OkIds(yielded) = okProduced
    /\ state.tag = "Connected"
    /\ \E i \in 1..Len(yielded) : yielded[i].kind = "Err"

\* The edges of StreamState the documentation of the wrapper allows.
AllowedEdges ==
    {<<"Connecting", "Connected">>, <<"Connected", "Reconnecting">>,
     <<"Connecting", "Reconnecting">>, <<"Reconnecting", "Connecting">>,
     <<"Connected", "Terminated">>, <<"Connecting", "Terminated">>}

\* C11: the wrapper is created in Connecting, and every assignment to self.state (one
\* poll_next may make several) either keeps the state or follows one of the edges
\* Connecting->Connected, Connected->Reconnecting, Connecting->Reconnecting,
\* Reconnecting->Connecting, Connected->Terminated, Connecting->Terminated; the state
\* changes nowhere else.
C11_StateFollowsEdges ==
    /\ out = NotPolled => state.tag = "Connecting"
    /\ \A i \in 1..(Len(trail) - 1) :
          \/ trail[i] = trail[i + 1]
          \/ <<trail[i], trail[i + 1]>> \in AllowedEdges
    /\ trail[Len(trail)] = state.tag

\* C11 witness: one poll_next in which the delay had elapsed, the connect failed and
\* the budget ran out: Reconnecting, Connecting, Terminated.
C11_Witness ==
    /\ trail = <<"Reconnecting", "Connecting", "Terminated">>
    /\ out.tag = "Some" /\ out.item.err = "ReconnectFailed"

\* C12: once the wrapper is dropped it holds no inner connection, no pending connect
\* attempt and no timer, and nothing happens any more: no item is yielded, connect is
\* not invoked, no timer fires, no frame is taken.
C12_DropReleasesEverything ==
    [][/\ dropped' => (/\ ~conn'.open
                       /\ ~sleep_future'.armed
                       /\ state'.future = "none")
       /\ dropped => UNCHANGED vars]_vars

\* C12 witness: the wrapper was dropped while it waited to reconnect after the loss of
\* an established connection.
C12_Witness ==
    /\ dropped
    /\ state.tag = "Reconnecting"
    /\ everConnected
    /\ lossAt >= 0

\* C13: with max_attempts = Some(N), when an established connection was lost and no
\* connect succeeded since, the wrapper is Terminated only after N invocations of
\* connect after the loss.
C13_BudgetManyReconnectsAfterLoss ==
    \A n \in 1..MaxConnects :
        (config.max_attempts = {n} /\ lossAt >= 0 /\ state.tag = "Terminated")
            => connectCalls - lossAt = n

\* The part of a path before its query string
RECURSIVE StripQuery(_)
StripQuery(p) ==
    IF p = <<>> \/ p[1] = "?" THEN <<>> ELSE <<p[1]>> \o StripQuery(Tail(p))

HasQuery(p) == \E i \in 1..Len(p) : p[i] = "?"

L2OpsOfAuthenticatedClient ==
    {"get_api_keys", "delete_api_key", "get_balance_allowance",
     "update_balance_allowance", "get_notifications", "drop_notifications"}

\* C14: on an AuthenticatedClient without API credentials each of the six L2
\* operations returns AuthRequired having computed no signature and sent no request;
\* create_api_key and derive_api_key do not ask for credentials: they go on to sign.
C14_L2NeedsCredentials ==
    (call.client = "AuthenticatedClient" /\ ~api_creds) =>
        /\ call.op \in L2OpsOfAuthenticatedClient =>
              (call.result = "AuthRequired" /\ call.effects = <<>>)
        /\ call.op \in {"create_api_key", "derive_api_key"} =>
              /\ call.result # "AuthRequired"
              /\ call.effects # <<>>
              /\ call.effects[1].kind = "l1sign"

\* C14 witness: get_balance_allowance with query parameters on a client without
\* credentials.
C14_Witness ==
    /\ ~api_creds
    /\ call.client = "AuthenticatedClient"
    /\ call.op = "get_balance_allowance"
    /\ call.args.params # <<>>
    /\ call.result = "AuthRequired"

\* C15: in every L2 operation the request that is sent follows a signing of its own
\* method, of its path with the query string removed, and of its own body; a signed
\* path never holds a query string.
C15_SignedIsSentWithoutQuery ==
    \A i \in 1..Len(call.effects) :
        LET e == call.effects[i]
        IN /\ e.kind = "l2sign" => ~HasQuery(e.path)
           /\ (e.kind = "http" /\ i > 1 /\ call.effects[i - 1].kind = "l2sign") =>
                 LET s == call.effects[i - 1]
                 IN /\ s.method = e.method
                    /\ s.path = StripQuery(e.path)
                    /\ s.body = e.body
           /\ (e.kind = "http" /\ call.op \notin {"create_api_key", "derive_api_key",
                                                   "create_or_derive_api_key"}) =>
                 (i > 1 /\ call.effects[i - 1].kind = "l2sign")

\* C15 witness: get_orders with two query parameters: the request went out with the
\* query string.
C15_Witness ==
    /\ call.op = "get_orders"
    /\ Len(call.args.params) = 2
    /\ Len(call.effects) = 2
    /\ HasQuery(call.effects[2].path)
    /\ call.result = "Ok"

\* C16 as stated: in every operation, create_or_derive_api_key included, a step that
\* fails is the last step of the call.
C16_FailureEndsEveryCall ==
    \A i \in 1..Len(call.effects) : ~call.effects[i].ok => i = Len(call.effects)

\* C16 amended: in every operation but create_or_derive_api_key a step that fails is
\* the last step of the call and the call returns an error; create_or_derive_api_key,
\* when its create_api_key part fails, goes on with derive_api_key exactly once (one
\* more signing, then at most one request to /auth/derive-api-key) and returns what
\* that returns.
C16_FailureEndsCallButFallback ==
    LET e == call.effects
        failed == {i \in 1..Len(e) : ~e[i].ok}
    IN /\ call.op # "create_or_derive_api_key" =>
             /\ \A i \in failed : i = Len(e)
             /\ failed # {} => call.result \notin {"Ok", ""}
       /\ call.op = "create_or_derive_api_key" =>
             /\ Cardinality(failed) <= 2
             /\ \A i \in failed :
                   \/ i = Len(e)
                   \/ /\ \A j \in 1..(i - 1) : e[j].ok
                      /\ e[i + 1].kind = "l1sign"
                      /\ Len(e) <= i + 2
                      /\ \A j \in (i + 2)..Len(e) :
                            e[j] = Http("GET", <<"/auth/derive-api-key">>, NoBody, e[j].ok)
             /\ call.result = "Ok" <=> e[Len(e)].ok

\* C16 witness: post_order whose request failed after a successful signing.
C16_Witness ==
    /\ call.op = "post_order"
    /\ Len(call.effects) = 2
    /\ ~call.effects[2].ok
    /\ call.result = "HttpErr"

\* The value without trailing zeros: its scale is the number of fractional digits.
RECURSIVE Normalize(_)
Normalize(d) ==
    IF d.scale > 0 /\ d.m % 10 = 0 THEN Normalize(Dec(d.m \div 10, d.scale - 1)) ELSE d

\* A tick size of 10^-k, k = 1..4
SupportedTick(t) == \E k \in 1..4 : Normalize(t) = Dec(1, k)

\* C17: the rounding table has four entries, a lookup finds an entry exactly for the
\* tick sizes 0.1, 0.01, 0.001 and 0.0001, and the entry found has price decimals =
\* the tick's decimal places, size decimals = 2 and amount decimals = price + size:
\* (1,2,3), (2,2,4), (3,2,5), (4,2,6).
C17_TableHasFourTicks ==
    /\ Cardinality(ROUNDING_CONFIG) = 4
    /\ rin.op = "get" =>
          /\ (rout.found # {}) <=> SupportedTick(rin.tick)
          /\ \A c \in rout.found :
                /\ c.price = Normalize(rin.tick).scale
                /\ c.size = 2
                /\ c.amount = c.price + c.size
                /\ <<c.price, c.size, c.amount>>
                       \in {<<1, 2, 3>>, <<2, 2, 4>>, <<3, 2, 5>>, <<4, 2, 6>>}
          /\ Cardinality(rout.found) <= 1

\* C17 witness: the lookup of 0.001 found (3, 2, 5).
C17_Witness ==
    /\ rin.op = "get"
    /\ rin.tick = Dec(1, 3)
    /\ rout.found = {RoundConfig(3, 2, 5)}

\* C18: for a non-negative decimal x with at most six fractional digits,
\* decimal_to_token_u64(x) does not panic and returns exactly x * 10^6.
C18_TokenUnitsAreExact ==
    (/\ rin.op = "decimal_to_token_u64"
     /\ rin.amt.m >= 0
     /\ Normalize(rin.amt).scale <= 6)
        => /\ ~rout.panic
           /\ rout.value * Pow(10, Normalize(rin.amt).scale) = Normalize(rin.amt).m * 1000000

\* C18 witness: 1.5 gave 1_500_000.
C18_Witness ==
    /\ rin.op = "decimal_to_token_u64"
    /\ rin.amt = Dec(15, 1)
    /\ rout.value = 1500000
    /\ ~rout.panic

\* C19: for every decimal and every config of the table, the value fix_amount_rounding
\* returns has at most amount_decimals fractional digits.
C19_AmountWithinDecimals ==
    rin.op = "fix_amount_rounding" => rout.dec.scale <= rin.cfg.amount

\* C19 witness: an input of more than amount + 4 places, which both roundings changed.
C19_Witness ==
    /\ rin.op = "fix_amount_rounding"
    /\ rin.amt = Dec(123456789, 12)
    /\ rin.cfg = RoundConfig(2, 2, 4)
    /\ rout.dec = Dec(1, 4)

\* C20: building an order with a tick size that has no entry in the table fails with
\* InvalidParameter and yields no signed order; an order that is built was rounded
\* with the entry of its own tick size.
C20_UnknownTickIsRejected ==
    rin.op = "create_order" =>
        /\ ~SupportedTick(rin.tick) =>
              (rout.err = "InvalidParameter" /\ rout.order = NoOrder)
        /\ rout.order.signed =>
              /\ SupportedTick(rin.tick)
              /\ rout.order.rule.price = Normalize(rin.tick).scale
              /\ rout.order.price.scale <= Normalize(rin.tick).scale

\* C20 witness: an order for tick size 0.05 was refused.
C20_Witness ==
    /\ rin.op = "create_order"
    /\ rin.tick = Dec(5, 2)
    /\ rout.err = "InvalidParameter"
    /\ ~rout.order.signed

\* The side of the book a market order consumes, and what it holds
OpposingSide == IF rin.side = "Buy" THEN rin.book.asks ELSE rin.book.bids

RECURSIVE Depth(_)
Depth(levels) ==
    IF levels = <<>> THEN Dec(0, 0) ELSE Add(Head(levels).size, Depth(Tail(levels)))

\* The part of level i an order of this amount consumes
Consumed(levels, i, amount) ==
    LET left == Sub(amount, Depth(SubSeq(levels, 1, i - 1)))
    IN IF left.m <= 0 THEN Dec(0, 0)
       ELSE IF Less(left, levels[i].size) THEN left ELSE levels[i].size

\* Sum of price * consumed size over the first i levels
RECURSIVE ConsumedValue(_, _, _)
ConsumedValue(levels, i, amount) ==
    IF i = 0 THEN Dec(0, 0)
    ELSE Add(ConsumedValue(levels, i - 1, amount),
             Mul(levels[i].price, Consumed(levels, i, amount)))

\* C21: when the opposing side of the book holds less than the requested amount,
\* create_market_order fails with InvalidOrder: no price is derived from the part that
\* could be filled, and no order is built or signed.
C21_ThinBookIsInvalidOrder ==
    (rin.op = "create_market_order" /\ Less(Depth(OpposingSide), rin.amt))
        => /\ rout.err = "InvalidOrder"
           /\ rout.price = Dec(0, 0)
           /\ rout.order = NoOrder

\* C21 witness: Buy 40 against asks [(0.40,10),(0.45,20)] was refused.
C21_Witness ==
    /\ rin.op = "create_market_order"
    /\ rin.side = "Buy"
    /\ rin.amt = Dec(40, 0)
    /\ rin.book.asks = <<Level(Dec(40, 2), Dec(10, 0)), Level(Dec(45, 2), Dec(20, 0))>>
    /\ rout.err = "InvalidOrder"
    /\ ~rout.order.signed

\* C22: when the opposing side holds the requested amount, the market price is the
\* sum of price * size over the levels consumed in book order (the last level for the
\* part consumed only) divided by the amount, to the sixth decimal place; the call does
\* not fail with InvalidOrder.
C22_PriceIsWeightedAverage ==
    (rin.op = "create_market_order" /\ ~Less(Depth(OpposingSide), rin.amt))
        => /\ rout.err # "InvalidOrder"
           /\ rout.price.scale = 6
           /\ LET s == rout.price.scale + rin.amt.scale
                  v == ConsumedValue(OpposingSide, Len(OpposingSide), rin.amt)
              IN 2 * Abs(rout.price.m * rin.amt.m - Align(v, s)) <= rin.amt.m

\* C22 witness: Buy 15 against asks [(0.40,10),(0.45,20)] is priced 6.25 / 15 =
\* 0.416667, and the order for tick size 0.01 carries 0.42.
C22_Witness ==
    /\ rin.op = "create_market_order"
    /\ rin.side = "Buy"
    /\ rin.amt = Dec(15, 0)
    /\ rin.tick = Dec(1, 2)
    /\ rin.book.asks = <<Level(Dec(40, 2), Dec(10, 0)), Level(Dec(45, 2), Dec(20, 0))>>
    /\ rout.err = ""
    /\ rout.price = Dec(416667, 6)
    /\ rout.order.signed
    /\ rout.order.price = Dec(42, 2)

\* C23: Terminated is absorbing.  From a Terminated wrapper the only thing that
\* happens is a pull, which returns end-of-stream: the state stays Terminated, connect
\* is not invoked, no timer is started, no connection is opened and no item is yielded.
C23_TerminatedIsAbsorbing ==
    [][state.tag = "Terminated" =>
          /\ state' = state
          /\ out' = ReadyNone
          /\ yielded' = yielded
          /\ connectCalls' = connectCalls
          /\ ~sleep_future'.armed
          /\ ~conn'.open]_vars

\* C23 witness: a wrapper with budget 2 that had been connected, terminated and was
\* pulled again.
C23_Witness ==
    /\ state.tag = "Terminated"
    /\ config.max_attempts = {2}
    /\ everConnected
    /\ out = ReadyNone
    /\ LastYielded = ReconnectFailed(2)

\* C24: a failure of the inner stream in Connected gives the attempt number 1; a
\* failed connect gives the number of the Reconnecting (or Connecting) state it came
\* from plus 1 (1 for the very first connect); the wrapper terminates exactly when
\* that number has reached max_attempts, and then takes no delay from the backoff and
\* arms no timer; otherwise it is Reconnecting with that number, the delay the backoff
\* stood at, and the backoff advanced once.
C24_AttemptCounting ==
    [][LET failedInner == state.tag = "Connected" /\ state'.tag # "Connected"
           failedConnect == seen' = "ConnectErr" /\ state' # state
           n == IF failedConnect THEN state.attempts + 1 ELSE 1
       IN (failedInner \/ failedConnect) =>
             /\ failedInner => seen' \in {"Json", "WebSocket", "ConnectionClosed", "End"}
             /\ state'.tag \in {"Reconnecting", "Terminated"}
             /\ (state'.tag = "Terminated") <=> (\E max \in config.max_attempts : n >= max)
             /\ state'.tag = "Terminated" =>
                   /\ backoff' = backoff
                   /\ ~sleep_future'.armed
                   /\ out'.item.err = "ReconnectFailed" => out'.item.attempts = n
             /\ state'.tag = "Reconnecting" =>
                   /\ state'.attempts = n
                   /\ state'.delay = backoff.current_delay
                   /\ backoff' = NextDelay(backoff).backoff]_vars

\* C24 witness: budget 3 and initial delay 1: a lost connection (1), two failed
\* connects (2, 3), ReconnectFailed{3}, and the backoff left where the second delay
\* put it.
C24_Witness ==
    /\ config.max_attempts = {3}
    /\ config.initial_delay = 1
    /\ everConnected
    /\ seen = "ConnectErr"
    /\ state.tag = "Terminated"
    /\ out = ReadySome(ReconnectFailed(3))
    /\ backoff.current_delay = 4

\* C25: every delay the wrapper waits before a reconnection attempt is at most
\* max_delay, for every configuration.
C25_DelayAtMostMax ==
    /\ state.tag = "Reconnecting" => state.delay <= config.max_delay
    /\ sleep_future.armed => sleep_future.delay <= config.max_delay

\* C26: connect is invoked only by a pull that finds the state Connecting without a
\* stored attempt (at once, or after the elapsed delay took it from Reconnecting to
\* Connecting), never at construction; while a stored attempt has not completed, the
\* wrapper stays Connecting with the same attempt number, every pull returns Pending,
\* no item is yielded, no timer is armed and connect is not invoked.
C26_ConnectOnlyWhenNoneStored ==
    [][/\ out = NotPolled => connectCalls = 0
       /\ connectCalls' # connectCalls =>
             /\ connectCalls' = connectCalls + 1
             /\ state.future = "none"
             /\ state.tag \in {"Connecting", "Reconnecting"}
             /\ state.tag = "Reconnecting" => sleep_future.elapsed
       /\ (state.tag = "Connecting" /\ state.future = "pending") =>
             /\ state'.tag = "Connecting"
             /\ state'.attempts = state.attempts
             /\ connectCalls' = connectCalls
             /\ yielded' = yielded
             /\ ~sleep_future'.armed
             /\ seen' \notin {"ConnectErr"}
             /\ state'.future = "pending" => out' = Pending]_vars

\* C26 witness: a reconnection attempt (the third connect) is pending and the pull
\* returned Pending.
C26_Witness ==
    /\ state.tag = "Connecting"
    /\ state.future = "pending"
    /\ state.attempts = 2
    /\ connectCalls = 3
    /\ out = Pending
    /\ ~sleep_future.armed

\* C27: after a failure the wrapper is Reconnecting with a timer armed for the one
\* delay taken from the backoff for that failure; connect is invoked again only by a
\* pull that finds this timer elapsed; the backoff moves only by one delay per
\* failure or by a reset.
C27_ConnectAfterDelayElapsed ==
    [][/\ (connectCalls' # connectCalls /\ connectCalls >= 1) =>
             /\ state.tag = "Reconnecting"
             /\ sleep_future.armed
             /\ sleep_future.elapsed
             /\ sleep_future.delay = state.delay
       /\ (state'.tag = "Reconnecting" /\ state' # state) =>
             /\ state'.delay = backoff.current_delay
             /\ sleep_future' = Sleep(state'.delay)
             /\ backoff' = NextDelay(backoff).backoff
       /\ backoff' # backoff =>
             \/ state'.tag = "Reconnecting" /\ state' # state
             \/ backoff' = Reset(backoff)
       /\ (sleep_future.armed /\ ~sleep_future.elapsed) =>
             (state'.tag = "Reconnecting" /\ connectCalls' = connectCalls)]_vars

\* C27 witness: the second delay (2 s after 1 s) had elapsed and the pull invoked
\* connect for the third time.
C27_Witness ==
    /\ connectCalls = 3
    /\ state.tag = "Connecting"
    /\ state.attempts = 2
    /\ seen = "none"
    /\ ~everConnected
    /\ backoff.current_delay = 4
    /\ ~sleep_future.armed

\* C28: the wrapper holds an inner stream exactly when it is Connected, an armed
\* timer exactly when it is Reconnecting, a connect attempt only when it is
\* Connecting, and nothing when it is Terminated: a connection and a connect attempt
\* are never alive together.
C28_ResourcesFollowState ==
    /\ conn.open <=> state.tag = "Connected"
    /\ sleep_future.armed <=> state.tag = "Reconnecting"
    /\ state.future # "none" => state.tag = "Connecting"
    /\ ~(conn.open /\ state.future # "none")
    /\ state.tag = "Terminated" =>
          (~conn.open /\ ~sleep_future.armed /\ state.future = "none")

\* C28 witness: a connection that had delivered an item was lost with frames still
\* unread: the wrapper waits to reconnect and holds the timer only.
C28_Witness ==
    /\ state.tag = "Reconnecting"
    /\ sleep_future.armed
    /\ ~conn.open
    /\ conn.q = <<>>
    /\ okProduced # <<>>
    /\ seen = "WebSocket"
    /\ nextId = 4

\* The items yielded for the frame with this id
ItemsOf(id) == {j \in 1..Len(yielded) : yielded[j].id = id}

\* C29: on the market stream a message without an event (empty or blank text, the
\* text ping or pong, a Ping, Pong or raw frame, an empty array) yields no item and
\* does not end the stream; a binary frame yields one WebSocket error item and a Close
\* frame one ConnectionClosed error item.
C29_MarketSkipsMessagesWithoutEvent ==
    which = "market" =>
        /\ \A i \in 1..Len(consumed) :
              /\ consumed[i].kind \in {"empty", "pingtext", "ping", "pong", "raw",
                                        "arr_empty"}
                    => ItemsOf(consumed[i].id) = {}
              /\ consumed[i].kind = "binary" =>
                    /\ Cardinality(ItemsOf(consumed[i].id)) = 1
                    /\ \E j \in ItemsOf(consumed[i].id) :
                          yielded[j] = ErrItem("WebSocket", consumed[i].id)
              /\ consumed[i].kind \in {"close_frame", "close_none"} =>
                    /\ Cardinality(ItemsOf(consumed[i].id)) = 1
                    /\ \E j \in ItemsOf(consumed[i].id) :
                          yielded[j] = ErrItem("ConnectionClosed", consumed[i].id)
        /\ (consumed # <<>> /\ consumed[Len(consumed)].kind # "eof") => out.tag # "None"

\* C29 witness: the text ping, a binary frame and a Close frame with a code were
\* taken from the market socket; two error items came out and the stream goes on.
C29_Witness ==
    /\ which = "market"
    /\ Len(consumed) = 3
    /\ consumed[1].kind = "pingtext"
    /\ consumed[2].kind = "binary"
    /\ consumed[3].kind = "close_frame"
    /\ yielded = <<ErrItem("WebSocket", 2), ErrItem("ConnectionClosed", 3)>>
    /\ out.tag = "Some"

\* C30: on the market and the user stream every message taken from the socket yields
\* at most one item, items come in the order of arrival, and a text holding an array
\* of events yields exactly one item: Ok when its first element is an event, Err(Json)
\* when its first element does not parse, whatever the other elements are.
C30_OneItemPerMessageFirstElement ==
    /\ \A i \in 1..Len(consumed) :
          /\ Cardinality(ItemsOf(consumed[i].id)) <= 1
          /\ consumed[i].kind \in FirstOk =>
                \E j \in ItemsOf(consumed[i].id) : yielded[j] = OkItem(consumed[i].id)
          /\ consumed[i].kind \in FirstBad =>
                \E j \in ItemsOf(consumed[i].id) :
                    yielded[j] = ErrItem("Json", consumed[i].id)
    /\ \A j \in 1..Len(yielded) :
          \E i \in 1..Len(consumed) : consumed[i].id = yielded[j].id
    /\ \A j \in 1..Len(yielded) - 1 : yielded[j].id < yielded[j + 1].id

\* C30 witness: the user stream took [event, unparsable], [unparsable, event] and
\* [event, event] and yielded Ok, Err(Json), Ok.
C30_Witness ==
    /\ which = "user"
    /\ Len(consumed) = 3
    /\ consumed[1].kind = "arr_ok_bad"
    /\ consumed[2].kind = "arr_bad_ok"
    /\ consumed[3].kind = "arr_ok_ok"
    /\ yielded = <<OkItem(1), ErrItem("Json", 2), OkItem(3)>>

\* C31: a subscribe call connects first, then sends its payload (the subscription of
\* the market client, the authentication of the user client), and returns a stream
\* only after both succeeded; when connecting or sending fails it returns an error
\* and no stream.  Hence a connection that is open, or from which a frame has been
\* read, has had exactly that payload sent on it.
C31_PayloadSentBeforeStream ==
    /\ call.op = "subscribe" =>
          /\ Len(call.effects) \in {1, 2}
          /\ call.effects[1].step = "connect_async"
          /\ Len(call.effects) = 2 =>
                /\ call.effects[1].ok
                /\ call.effects[2].step = Payload(which)
          /\ call.result = "Ok" <=>
                (Len(call.effects) = 2 /\ call.effects[2].ok)
          /\ call.result # "Ok" => conn = NoConn /\ out = NotPolled
    /\ (conn.open \/ consumed # <<>> \/ out # NotPolled) =>
          /\ call.result = "Ok"
          /\ conn.sent = <<Payload(which)>>

C31_Witness ==
    /\ which = "user"
    /\ call.result = "Ok"
    /\ conn.sent = <<"authentication">>
    /\ yielded # <<>>

\* C32: create_market_order derives the price from the asks for a Buy and from the
\* bids for a Sell, for the requested amount.  When the derivation fails, its error is
\* the result and the builder is not run (no order exists); otherwise the result is
\* the builder's, for that price.
C32_PriceFromOpposingSideOrError ==
    rin.op = "create_market_order" =>
        LET price == CalculateMarketPrice(
                         IF rin.side = "Buy" THEN rin.book.asks ELSE rin.book.bids,
                         rin.amt)
            built == OrderBuilderCreateMarketOrder(rin.tick, rin.amt, price.price,
                                                   rin.side)
        IN /\ rout.price = price.price
           /\ price.err # "" => rout.err = price.err /\ rout.order = NoOrder
           /\ price.err = "" => rout.err = built.err /\ rout.order = built.order

\* C32 witness: Sell 30 against bids [(0.39,15)] and asks of depth 30 was refused with
\* the error of the price derivation, although the other side could have filled it.
C32_Witness ==
    /\ rin.op = "create_market_order"
    /\ rin.side = "Sell"
    /\ rin.amt = Dec(30, 0)
    /\ rin.tick = Dec(1, 2)
    /\ rin.book.bids = <<Level(Dec(39, 2), Dec(15, 0))>>
    /\ rin.book.asks = <<Level(Dec(40, 2), Dec(10, 0)), Level(Dec(45, 2), Dec(20, 0))>>
    /\ rout.err = "InvalidOrder"
    /\ rout.order = NoOrder

\* C33: for a non-negative decimal x with more than six fractional digits,
\* decimal_to_token_u64(x) is the integer nearest to x * 10^6, and an exact midpoint
\* goes toward zero: the result v satisfies -1/2 < x * 10^6 - v <= 1/2.
C33_TokenUnitsNearestMidpointDown ==
    (/\ rin.op = "decimal_to_token_u64"
     /\ rin.amt.m >= 0
     /\ Normalize(rin.amt).scale > 6)
        => LET x == Normalize(rin.amt)
               d == Pow(10, x.scale - 6)
           IN /\ ~rout.panic
              /\ 2 * (x.m - rout.value * d) <= d
              /\ 2 * (rout.value * d - x.m) < d

\* C33 witness: 0.0000015 is halfway between 1 and 2 units and gave 1.
C33_Witness ==
    /\ rin.op = "decimal_to_token_u64"
    /\ rin.amt = Dec(15, 7)
    /\ rout.value = 1
    /\ ~rout.panic

\* The reference of the amount rounding, on values without trailing zeros: x itself
\* when it has at most a fractional digits; otherwise x rounded away from zero to
\* a + 4 places and, if that still has more than a places, cut to a places.
AwayFromZeroTo(x, dp) ==
    IF x.scale <= dp THEN x
    ELSE LET div == Pow(10, x.scale - dp)
             mag == (Abs(x.m) + div - 1) \div div
         IN Normalize(Dec(IF x.m < 0 THEN -mag ELSE mag, dp))

TowardZeroTo(x, dp) ==
    IF x.scale <= dp THEN x
    ELSE LET mag == Abs(x.m) \div Pow(10, x.scale - dp)
         IN Normalize(Dec(IF x.m < 0 THEN -mag ELSE mag, dp))

AmountReference(amt, a) ==
    LET x == Normalize(amt)
    IN IF x.scale <= a THEN x
       ELSE LET y == AwayFromZeroTo(x, a + 4)
            IN IF y.scale > a THEN TowardZeroTo(y, a) ELSE y

\* C34: for every input x and every entry of the table, fix_amount_rounding returns
\* the value of the reference: x when x has at most a fractional digits, otherwise x
\* rounded away from zero to a + 4 places and then, if more than a places remain,
\* truncated toward zero to a places.
C34_AmountEqualsReference ==
    rin.op = "fix_amount_rounding"
        => Normalize(rout.dec) = AmountReference(rin.amt, rin.cfg.amount)

\* C34 witness: 0.000999999999 with a = 4 is carried to 0.00100000 by the first
\* rounding and cut to 0.0010 by the second.
C34_Witness ==
    /\ rin.op = "fix_amount_rounding"
    /\ rin.amt = Dec(999999999, 12)
    /\ rin.cfg = RoundConfig(2, 2, 4)
    /\ rout.dec = Dec(10, 4)

\* C35: decimal_to_token_u64 never panics: whatever the decimal, a negative amount
\* included, the call returns to its caller.
C35_TokenUnitsNeverPanic ==
    rin.op = "decimal_to_token_u64" => ~rout.panic

\* C38: for every input x and every entry of the table with amount decimals a, the
\* result of fix_amount_rounding differs from x by strictly less than 10^(-a), and
\* fix_amount_rounding applied to its own result returns that result.
C38_AmountCloseAndIdempotent ==
    rin.op = "fix_amount_rounding" =>
        LET a == rin.cfg.amount
            s == rin.amt.scale
        IN /\ IF s <= a THEN rout.dec = rin.amt
              ELSE /\ rout.dec.scale <= s
                   /\ (Abs(Align(rout.dec, s) - rin.amt.m) \div Pow(10, s - a - 1)) < 10
           /\ FixAmountRounding(rout.dec, rin.cfg) = rout.dec

\* C38 witness: -0.00123456789 with a = 3 became -0.001, 0.00023456789 away from it.
C38_Witness ==
    /\ rin.op = "fix_amount_rounding"
    /\ rin.amt = Dec(-123456789, 11)
    /\ rin.cfg = RoundConfig(1, 2, 3)
    /\ rout.dec = Dec(-1, 3)

\* C36: the budget counts consecutive failures since the last successful connect.
\* With max_attempts = Some(N), N >= 2, the wrapper enters Terminated, yields
\* ReconnectFailed or returns end-of-stream for the first time only in a pull in which
\* a connect failed; while every connect succeeds, losses of the connection, however
\* many, never terminate it.
C36_LossesAloneNeverTerminate ==
    [][(\E n \in config.max_attempts : n >= 2) =>
          /\ (state.tag # "Terminated" /\ state'.tag = "Terminated")
                => seen' = "ConnectErr"
          /\ (Len(yielded') > Len(yielded)
               /\ yielded'[Len(yielded')].err = "ReconnectFailed")
                => seen' = "ConnectErr"
          /\ (out' = ReadyNone /\ state.tag # "Terminated")
                => seen' = "ConnectErr"
          /\ (seen' \in {"Json", "WebSocket", "ConnectionClosed", "End"})
                => /\ state'.tag = "Reconnecting"
                   /\ state'.attempts = 1]_vars

\* C36 witness: budget 2; the fourth connect was made, so the last three succeeded
\* and each of their connections was lost; the wrapper waits to reconnect once more.
C36_Witness ==
    /\ config.max_attempts = {2}
    /\ connectCalls = 4
    /\ seen = "End"
    /\ state.tag = "Reconnecting"
    /\ state.attempts = 1
    /\ \A i \in 1..Len(yielded) : yielded[i].err # "ReconnectFailed"

\* C37: a successful connect resets the backoff by itself.  While no Ok item has ever
\* been delivered, the delay taken when an established connection is lost is the
\* reset value, the same for every such reconnection, whatever initial_delay is and
\* however many connects failed before.
C37_ConnectResetsBackoff ==
    (/\ state.tag = "Reconnecting"
     /\ seen \in {"End", "ConnectionClosed", "Json", "WebSocket"}
     /\ \A i \in 1..Len(yielded) : yielded[i].kind # "Ok")
        => /\ state.delay = Reset(backoff).current_delay
           /\ sleep_future.delay = state.delay
           /\ state.delay = 1

\* C37 witness: initial delay 10 s; the third connection ended as the two before it,
\* no item was ever delivered, and the wrapper waits 1 s.
C37_Witness ==
    /\ config.initial_delay = 10
    /\ connectCalls = 3
    /\ yielded = <<>>
    /\ seen = "End"
    /\ state = Reconnecting(1, 1)

\* The items the closure of stream w maps these frames to, in order
Outcomes(w, frames) ==
    LET msgs == SelectSeq(frames, LAMBDA f : f.kind # "eof")
        mapped == [i \in 1..Len(msgs) |-> Filter(w, msgs[i])]
    IN SelectSeq(mapped, LAMBDA it : it # Skip)

\* C39: the market stream and the user stream classify inbound frames identically:
\* whichever of the two streams took the frames, the items it yielded are the items
\* the closure of the market stream and the closure of the user stream map them to.
C39_StreamsClassifyAlike ==
    /\ yielded = Outcomes("market", consumed)
    /\ yielded = Outcomes("user", consumed)

====
